---------------------------- MODULE Spec2Model ----------------------------
(***************************************************************************)
(* Query-driven relevance and retrieval engine of the IRDAI RAG chatbot    *)
(* (src/src/scrapers/comprehensive_scraper.py): QueryAnalyzer, the route   *)
(* planner, the relevance scorer, the candidate extractor and the search   *)
(* strategy controller scrape_irdai_comprehensive ("run").                 *)
(*                                                                         *)
(* Text is modelled as a sequence of one-character strings, so that        *)
(* lower(), strip(), split(), the regular expressions and the substring    *)
(* test `p in s` are computed the way Python computes them.                *)
(* Scores are fixed-point numbers: a relevance score s in [0,1] is the     *)
(* integer s * ScoreOne; a confidence c is the integer c * 10.             *)
(***************************************************************************)
EXTENDS Integers, Sequences, FiniteSets, TLC

VARIABLES
  query,             \* the query string handed to analyze_query / run
  intent,            \* the QueryIntent computed for it (NoIntent before)
  \* the analyser harness
  apc,               \* its position
  plain_routes,      \* determine_intelligent_route(query)
  enhanced_routes,   \* determine_intelligent_route_enhanced(query, intent)
  \* one invocation of scrape_irdai_comprehensive
  pc,                      \* position in the invocation
  search_strategy,         \* determine_search_strategy(intent)
  priority_urls,           \* the planned routes
  web,                     \* the page behind each planned route
  route_idx,               \* index of the route the loop is at
  doc_data,                \* the extractor's output for the current page
  doc_idx,                 \* index of the candidate the inner loop is at
  page_documents,          \* documents accepted on the current page
  all_documents,           \* documents accepted on the earlier pages
  high_relevance_documents,\* accepted documents with a score >= 0.8
  documents_processed,     \* the processed-document counter
  result,                  \* the returned list
  events,                  \* history: what the invocation has done so far
  \* one call of each relevance scorer
  text,              \* the text that is scored
  fuzzy,             \* what the fuzzy-matching library contributes
  spc,               \* position of the scoring harness
  relevance,         \* calculate_relevance_score(text, query)
  enhanced,          \* enhanced_relevance_scoring(text, intent)
  detail_content,    \* the content of a detail page whose title is the text
  plain_detail,      \* the score extract_irdai_document_detail_page gives it
  intent_detail,     \* the score extract_irdai_document_detail_page_enhanced gives it
  rescored,          \* the score run() gives it in place of the extractor's
  \* one call of each candidate extractor on one page
  anchors,           \* the page's document-detail links, in document order
  xpc,               \* position in extract_irdai_documents_enhanced
  link_idx,          \* index of the link the current loop is at
  processed_doc_ids, \* the call's set of documentIds met
  documents,         \* the call's list of candidates
  attempts,          \* history: the documentIds put to a quality floor
  intent_documents,  \* extract_irdai_documents_enhanced_with_intent's list
  \* the scraper instance the invocations share
  query_state,       \* self.query_state
  visited_urls,      \* self.visited_urls
  self_documents,    \* self.documents
  other_pc,          \* position of a second invocation on the instance
  other_query,       \* the query of the second invocation
  \* one call of apply_final_filtering
  fpc,               \* position of the filtering harness
  filter_documents,  \* the documents argument
  filter_strategy,   \* the strategy argument
  filtered_docs      \* the list returned

qvars == <<query, intent>>

avars == <<apc, plain_routes, enhanced_routes>>

rvars ==
  <<pc, search_strategy, priority_urls, web, route_idx, doc_data, doc_idx,
    page_documents, all_documents, high_relevance_documents,
    documents_processed, result, events>>

svars == <<text, fuzzy, spc, relevance, enhanced, detail_content, plain_detail,
          intent_detail, rescored>>

xvars ==
  <<anchors, xpc, link_idx, processed_doc_ids, documents, attempts,
    intent_documents>>

ivars == <<query_state, visited_urls, self_documents, other_pc, other_query>>

fvars == <<fpc, filter_documents, filter_strategy, filtered_docs>>

vars == <<qvars, avars, rvars, svars, xvars, ivars, fvars>>

----------------------------------------------------------------------------
(* Bounds of the model *)

\* number of vocabulary words a generated query is made of, at most
MaxWords == 2

\* number of listing rows on the pages of one site, at most (the long and
\* the high-relevance listing apart)
MaxListed == 2

\* number of rows of the long listing, one more than the smallest budget
LongLen == 16

----------------------------------------------------------------------------
(* Python string primitives *)

UpperLetters ==
  <<"A","B","C","D","E","F","G","H","I","J","K","L","M",
    "N","O","P","Q","R","S","T","U","V","W","X","Y","Z">>

LowerLetters ==
  <<"a","b","c","d","e","f","g","h","i","j","k","l","m",
    "n","o","p","q","r","s","t","u","v","w","x","y","z">>

Digits == {"0","1","2","3","4","5","6","7","8","9"}

Whitespace == {" ", "\t"}

\* the characters \w matches
WordChars ==
  {UpperLetters[i] : i \in 1..26} \cup {LowerLetters[i] : i \in 1..26}
    \cup Digits \cup {"_"}

SetMin(S) == CHOOSE x \in S : \A y \in S : x <= y

SetMax(S) == CHOOSE x \in S : \A y \in S : x >= y

\* str.lower() on one character
LowerChar(c) ==
  IF \E i \in 1..26 : UpperLetters[i] = c
    THEN LowerLetters[CHOOSE i \in 1..26 : UpperLetters[i] = c]
    ELSE c

\* str.lower()
Lower(s) == [i \in 1..Len(s) |-> LowerChar(s[i])]

\* str.strip()
Strip(s) ==
  LET keep == {i \in 1..Len(s) : s[i] \notin Whitespace}
  IN  IF keep = {} THEN <<>> ELSE SubSeq(s, SetMin(keep), SetMax(keep))

\* the Python test `p in s` on strings
Contains(s, p) ==
  \E i \in 0..(Len(s) - Len(p)) : SubSeq(s, i + 1, i + Len(p)) = p

\* any(p in s for p in patterns)
ContainsAny(s, patterns) == \E p \in patterns : Contains(s, p)

\* the maximal runs of characters satisfying InRun, left to right:
\* re.findall(r'\b\w+\b', s) when the run characters are \w,
\* s.split() when they are the non-blank characters
RunStarts(s, isIn) ==
  {i \in 1..Len(s) : isIn[i] /\ (i = 1 \/ ~isIn[i - 1])}

RunEnd(s, isIn, i) ==
  SetMin({j \in i..Len(s) : j = Len(s) \/ ~isIn[j + 1]})

RunsOf(s, isIn) ==
  LET st == RunStarts(s, isIn)
      nth(k) == CHOOSE i \in st : Cardinality({j \in st : j < i}) = k - 1
  IN  [k \in 1..Cardinality(st) |-> SubSeq(s, nth(k), RunEnd(s, isIn, nth(k)))]

\* re.findall(r'\b\w+\b', s)
FindWords(s) == RunsOf(s, [i \in 1..Len(s) |-> s[i] \in WordChars])

\* str.split()
Split(s) == RunsOf(s, [i \in 1..Len(s) |-> s[i] \notin Whitespace])

\* re.findall(r'\b(20\d{2})\b', s): the \w-runs of the shape 20dd
FindYears(s) ==
  SelectSeq(FindWords(s),
            LAMBDA w : /\ Len(w) = 4
                       /\ w[1] = "2" /\ w[2] = "0"
                       /\ w[3] \in Digits /\ w[4] \in Digits)

Range(f) == {f[i] : i \in DOMAIN f}

\* ' '.join(ws)
RECURSIVE Join(_)
Join(ws) ==
  IF Len(ws) = 0 THEN <<>>
  ELSE IF Len(ws) = 1 THEN ws[1]
  ELSE ws[1] \o <<" ">> \o Join(Tail(ws))

----------------------------------------------------------------------------
(* QueryAnalyzer *)

\* QueryAnalyzer.document_type_patterns, in declaration order
DocumentTypeNames ==
  <<"regulation", "circular", "guideline", "notification",
    "act", "order", "policy", "report">>

document_type_patterns ==
  [regulation   |-> {<<"r","e","g","u","l","a","t","i","o","n">>, <<"r","e","g","u","l","a","t","o","r","y">>, <<"r","u","l","e">>, <<"r","u","l","e","s">>},
   circular     |-> {<<"c","i","r","c","u","l","a","r">>, <<"m","a","s","t","e","r"," ","c","i","r","c","u","l","a","r">>},
   guideline    |-> {<<"g","u","i","d","e","l","i","n","e">>, <<"g","u","i","d","e","l","i","n","e","s">>, <<"g","u","i","d","a","n","c","e">>},
   notification |-> {<<"n","o","t","i","f","i","c","a","t","i","o","n">>, <<"n","o","t","i","c","e">>, <<"a","n","n","o","u","n","c","e","m","e","n","t">>},
   act          |-> {<<"a","c","t">>, <<"a","m","e","n","d","m","e","n","t"," ","a","c","t">>, <<"i","n","s","u","r","a","n","c","e"," ","a","c","t">>},
   order        |-> {<<"o","r","d","e","r">>, <<"d","i","r","e","c","t","i","v","e">>},
   policy       |-> {<<"p","o","l","i","c","y">>, <<"p","o","l","i","c","y"," ","d","o","c","u","m","e","n","t">>},
   report       |-> {<<"r","e","p","o","r","t">>, <<"a","n","n","u","a","l"," ","r","e","p","o","r","t">>, <<"f","i","n","a","n","c","i","a","l"," ","r","e","p","o","r","t">>}]

\* QueryAnalyzer.time_indicators
time_indicators_latest ==
  {<<"l","a","t","e","s","t">>, <<"r","e","c","e","n","t">>, <<"n","e","w">>, <<"c","u","r","r","e","n","t">>, <<"u","p","d","a","t","e","d">>, <<"2","0","2","4">>, <<"2","0","2","5">>}

time_indicators_historical == {<<"o","l","d">>, <<"p","r","e","v","i","o","u","s">>, <<"a","r","c","h","i","v","e","d">>, <<"e","a","r","l","i","e","r">>}

\* QueryAnalyzer.urgency_indicators, in declaration order
UrgencyNames == <<"critical", "high", "medium", "low">>

urgency_indicators ==
  [critical |-> {<<"u","r","g","e","n","t">>, <<"i","m","m","e","d","i","a","t","e">>, <<"e","m","e","r","g","e","n","c","y">>, <<"c","r","i","t","i","c","a","l">>},
   high     |-> {<<"i","m","p","o","r","t","a","n","t">>, <<"p","r","i","o","r","i","t","y">>, <<"n","e","e","d","e","d">>, <<"r","e","q","u","i","r","e","d">>},
   medium   |-> {<<"p","l","e","a","s","e">>, <<"h","e","l","p">>, <<"f","i","n","d">>, <<"s","e","a","r","c","h">>},
   low      |-> {<<"g","e","n","e","r","a","l">>, <<"o","v","e","r","v","i","e","w">>, <<"a","b","o","u","t">>}]

harmful_patterns == {<<"d","e","l","e","t","e">>, <<"r","e","m","o","v","e">>, <<"h","a","c","k">>, <<"e","x","p","l","o","i","t">>, <<"i","n","j","e","c","t">>}

stop_words ==
  {<<"t","h","e">>, <<"a">>, <<"a","n">>, <<"a","n","d">>, <<"o","r">>, <<"b","u","t">>, <<"i","n">>, <<"o","n">>, <<"a","t">>, <<"t","o">>,
   <<"f","o","r">>, <<"o","f">>, <<"w","i","t","h">>, <<"b","y">>, <<"i","s">>, <<"a","r","e">>, <<"w","a","s">>, <<"w","e","r","e">>}

important_phrases ==
  {<<"r","e","g","i","o","n","a","l"," ","r","u","r","a","l"," ","b","a","n","k">>, <<"u","n","i","t"," ","l","i","n","k","e","d">>, <<"m","o","t","o","r"," ","v","e","h","i","c","l","e">>, <<"t","h","i","r","d"," ","p","a","r","t","y">>,
   <<"l","i","f","e"," ","i","n","s","u","r","a","n","c","e">>, <<"g","e","n","e","r","a","l"," ","i","n","s","u","r","a","n","c","e">>, <<"h","e","a","l","t","h"," ","i","n","s","u","r","a","n","c","e">>,
   <<"e","x","p","r","e","s","s","i","o","n"," ","o","f"," ","i","n","t","e","r","e","s","t">>, <<"k","e","y"," ","m","a","n","a","g","e","r","i","a","l">>, <<"c","o","r","p","o","r","a","t","e"," ","g","o","v","e","r","n","a","n","c","e">>}

\* the value None of target_year (a year is never the empty string)
None == <<>>

\* _extract_keywords: list(set(...)), an unordered collection
_extract_keywords(q) ==
  LET words    == Range(FindWords(Lower(q)))
      keywords == {w \in words : w \notin stop_words /\ Len(w) > 2}
      extended == UNION {Range(Split(phrase)) :
                           phrase \in {p \in important_phrases : Contains(Lower(q), p)}}
  IN  keywords \cup extended

\* _detect_document_types: the detected types in declaration order
_detect_document_types(q) ==
  SelectSeq(DocumentTypeNames,
            LAMBDA t : ContainsAny(q, document_type_patterns[t]))

\* a time analysis that looks for a year before the latest indicators
_analyze_time_sensitivity_YearFirst(q) ==
  IF Len(FindYears(q)) > 0 THEN <<"specific_year", FindYears(q)[1]>>
  ELSE IF ContainsAny(q, time_indicators_latest) THEN <<"latest", None>>
  ELSE IF ContainsAny(q, time_indicators_historical) THEN <<"historical", None>>
  ELSE <<"any_time", None>>

\* _analyze_time_sensitivity: <<time_sensitivity, target_year>>
_analyze_time_sensitivity(q) ==
  IF ContainsAny(q, time_indicators_latest) THEN <<"latest", None>>
  ELSE IF Len(FindYears(q)) > 0 THEN <<"specific_year", FindYears(q)[1]>>
  ELSE IF ContainsAny(q, time_indicators_historical) THEN <<"historical", None>>
  ELSE <<"any_time", None>>

\* the branch order of _determine_intent_type
_determine_intent_type(q, keywords, document_types) ==
  IF \/ Cardinality(keywords) > 8
     \/ ContainsAny(q, {<<"g","u","i","d","e","l","i","n","e","s"," ","o","n">>, <<"p","r","o","c","e","d","u","r","e"," ","f","o","r">>, <<"r","u","l","e","s"," ","f","o","r">>})
     \/ Contains(Lower(q), <<"d","o","c","u","m","e","n","t"," ","i","d">>)
    THEN "specific_document"
  ELSE IF ContainsAny(q, {<<"l","a","t","e","s","t">>, <<"r","e","c","e","n","t">>, <<"n","e","w">>, <<"u","p","d","a","t","e","d">>, <<"c","u","r","r","e","n","t">>})
    THEN "latest_updates"
  ELSE IF \E i \in 1..Len(document_types) :
            document_types[i] \in {"regulation", "guideline", "circular"}
    THEN "regulatory_guidance"
  ELSE "general_search"

\* _calculate_urgency: the first bucket, in declaration order, with a hit
_calculate_urgency(q) ==
  LET hits == SelectSeq(UrgencyNames,
                        LAMBDA u : ContainsAny(q, urgency_indicators[u]))
  IN  IF Len(hits) > 0 THEN hits[1] ELSE "medium"

specific_patterns ==
  {<<"r","e","g","u","l","a","t","i","o","n">>, <<"c","i","r","c","u","l","a","r">>, <<"g","u","i","d","e","l","i","n","e">>, <<"i","r","d","a","i">>, <<"i","n","s","u","r","a","n","c","e">>}

\* the additive confidence before the cap, in tenths
ConfidenceSum(q, keywords, document_types) ==
  (IF Cardinality(keywords) >= 3 THEN 3 ELSE 0)
    + (IF Cardinality(keywords) >= 6 THEN 2 ELSE 0)
    + Len(document_types)
    + Cardinality({p \in specific_patterns : Contains(q, p)})

\* the confidence without the min(.., 1.0) of line 257
CapConfidence_NoCap(c) == c

\* min(confidence, 1.0), in tenths
CapConfidence(c) == IF c < 10 THEN c ELSE 10

_calculate_intent_confidence(q, keywords, document_types) ==
  CapConfidence(ConfidenceSum(q, keywords, document_types))

\* the QueryIntent returned by the two guard rails
RejectedIntent(type) ==
  [intent_type      |-> type,
   keywords         |-> {},
   document_types   |-> <<>>,
   time_sensitivity |-> "any_time",
   target_year      |-> None,
   urgency_level    |-> "medium",
   confidence_score |-> 0]

\* the guard of line 110 without the trim: a blank-padded short query passes
TooShort_NoStrip(q) == Len(q) = 0 \/ Len(q) < 3

\* the first guard rail of analyze_query and of run: not query or
\* len(query.strip()) < 3
TooShort(q) == Len(q) = 0 \/ Len(Strip(q)) < 3

\* the denylist test without the lower-casing of line 116
Harmful_CaseSensitive(q) == ContainsAny(Strip(q), harmful_patterns)

\* the second guard rail of analyze_query
Harmful(q) == ContainsAny(Strip(Lower(q)), harmful_patterns)

analyze_query(q) ==
  LET query_lower == Strip(Lower(q))
      keywords == _extract_keywords(query_lower)
      document_types == _detect_document_types(query_lower)
      ts == _analyze_time_sensitivity(query_lower)
  IN  IF TooShort(q) THEN RejectedIntent("invalid")
      ELSE IF Harmful(q) THEN RejectedIntent("blocked")
      ELSE [intent_type      |-> _determine_intent_type(query_lower, keywords, document_types),
            keywords         |-> keywords,
            document_types   |-> document_types,
            time_sensitivity |-> ts[1],
            target_year      |-> ts[2],
            urgency_level    |-> _calculate_urgency(query_lower),
            confidence_score |-> _calculate_intent_confidence(query_lower, keywords, document_types)]

----------------------------------------------------------------------------
(* Route planner *)

\* website_configs["irdai"]["intelligent_routing"], in declaration order
RouteTypeNames ==
  <<"rrb_amalgamation", "ulip", "acts", "rules", "regulations",
    "circulars", "notifications", "financial">>

intelligent_routing ==
  [rrb_amalgamation |->
     [keywords |-> <<<<"r","r","b">>, <<"r","e","g","i","o","n","a","l"," ","r","u","r","a","l"," ","b","a","n","k">>, <<"a","m","a","l","g","a","m","a","t">>,
                     <<"c","o","r","p","o","r","a","t","e"," ","a","g","e","n","c","y">>, <<"m","a","y"," ","2","0","2","5">>>>,
      primary_urls |-> <<"/consolidated-gazette-notified-regulations",
                         "/circulars", "/notifications">>],
   ulip |->
     [keywords |-> <<<<"u","l","i","p">>, <<"u","n","i","t"," ","l","i","n","k","e","d">>, <<"u","n","i","t","-","l","i","n","k","e","d">>, <<"i","n","v","e","s","t","m","e","n","t"," ","p","l","a","n">>>>,
      primary_urls |-> <<"/consolidated-gazette-notified-regulations",
                         "/guidelines", "/circulars">>],
   acts |->
     [keywords |-> <<<<"a","c","t">>, <<"a","m","e","n","d","m","e","n","t"," ","a","c","t">>, <<"i","n","s","u","r","a","n","c","e"," ","l","a","w","s">>,
                     <<"i","n","s","u","r","a","n","c","e"," ","a","c","t">>, <<"i","r","d","a","i"," ","a","c","t">>>>,
      primary_urls |-> <<"/acts", "/insurance-acts", "/rules",
                         "/consolidated-gazette-notified-regulations">>],
   rules |->
     [keywords |-> <<<<"r","u","l","e","s">>, <<"m","o","t","o","r"," ","v","e","h","i","c","l","e">>, <<"t","h","i","r","d"," ","p","a","r","t","y">>,
                     <<"l","i","a","b","i","l","i","t","y"," ","r","u","l","e","s">>, <<"b","a","s","e"," ","p","r","e","m","i","u","m">>>>,
      primary_urls |-> <<"/rules", "/notifications",
                         "/consolidated-gazette-notified-regulations">>],
   regulations |->
     [keywords |-> <<<<"r","e","g","u","l","a","t","i","o","n">>, <<"i","r","d","a","i"," ","r","e","g","u","l","a","t","i","o","n">>,
                     <<"c","o","r","p","o","r","a","t","e"," ","g","o","v","e","r","n","a","n","c","e">>, <<"s","o","l","v","e","n","c","y">>>>,
      primary_urls |-> <<"/consolidated-gazette-notified-regulations",
                         "/updated-regulations", "/regulations">>],
   circulars |->
     [keywords |-> <<<<"c","i","r","c","u","l","a","r">>, <<"m","a","s","t","e","r"," ","c","i","r","c","u","l","a","r">>, <<"g","u","i","d","e","l","i","n","e","s">>>>,
      primary_urls |-> <<"/circulars", "/notifications", "/guidelines">>],
   notifications |->
     [keywords |-> <<<<"n","o","t","i","f","i","c","a","t","i","o","n">>, <<"p","r","e","s","s"," ","r","e","l","e","a","s","e">>, <<"a","n","n","o","u","n","c","e","m","e","n","t">>>>,
      primary_urls |-> <<"/notifications", "/press-releases", "/announcements">>],
   financial |->
     [keywords |-> <<<<"o","b","l","i","g","a","t","o","r","y"," ","c","e","s","s","i","o","n">>, <<"f","i","n","a","n","c","i","a","l"," ","y","e","a","r">>,
                     <<"a","n","n","u","a","l"," ","r","e","p","o","r","t">>, <<"b","u","d","g","e","t">>>>,
      primary_urls |-> <<"/annual-reports", "/notifications",
                         "/consolidated-gazette-notified-regulations">>]]

\* website_configs["irdai"]["start_pages"]
start_pages ==
  <<"/acts", "/rules", "/consolidated-gazette-notified-regulations",
    "/updated-regulations", "/notifications">>

\* the slice limits of the two planners
PlainRouteLimit == 3

EnhancedRouteLimit == 4

\* xs[:n]
Take(xs, n) == SubSeq(xs, 1, IF Len(xs) < n THEN Len(xs) ELSE n)

\* the order-preserving removal of duplicates (seen / unique_urls)
RECURSIVE Dedup(_)
Dedup(xs) ==
  IF Len(xs) = 0 THEN <<>>
  ELSE LET front == Dedup(SubSeq(xs, 1, Len(xs) - 1))
           last  == xs[Len(xs)]
       IN  IF last \in Range(front) THEN front ELSE Append(front, last)

RECURSIVE Concat(_)
Concat(xss) == IF Len(xss) = 0 THEN <<>> ELSE xss[1] \o Concat(Tail(xss))

\* the score of one routing category: 3 per word of each keyword found in
\* the query, plus 10 when the query equals the keyword
RECURSIVE KeywordScore(_, _)
KeywordScore(q, keywords) ==
  IF Len(keywords) = 0 THEN 0
  ELSE (IF Contains(q, keywords[1])
          THEN Len(Split(keywords[1])) * 3 + (IF q = keywords[1] THEN 10 ELSE 0)
          ELSE 0)
       + KeywordScore(q, Tail(keywords))

route_scores(q) ==
  [i \in 1..Len(RouteTypeNames) |->
     KeywordScore(q, intelligent_routing[RouteTypeNames[i]].keywords)]

\* sorted(route_scores.items(), key=score, reverse=True): a stable sort,
\* as indices into RouteTypeNames
sorted_routes(q) ==
  LET sc == route_scores(q)
      n  == Len(RouteTypeNames)
      before(i) == {j \in 1..n : sc[j] > sc[i] \/ (sc[j] = sc[i] /\ j < i)}
  IN  [k \in 1..n |-> CHOOSE i \in 1..n : Cardinality(before(i)) = k - 1]

\* the special-case override of the latest / recent vocabulary
LatestOverride ==
  <<"/guidelines", "/circulars", "/notifications",
    "/consolidated-gazette-notified-regulations">>

\* the special-case override of the guideline vocabulary
GuidelineOverride ==
  <<"/guidelines", "/consolidated-gazette-notified-regulations", "/circulars">>

\* the score-based selection of determine_intelligent_route
ScoredRoutes(query_lower) ==
  LET sc        == route_scores(query_lower)
      order     == sorted_routes(query_lower)
      max_score == sc[order[1]]
      chosen    == SelectSeq(order, LAMBDA i : sc[i] * 10 >= max_score * 4)
      selected_urls ==
        IF max_score > 0
          THEN Concat([k \in 1..Len(chosen) |->
                         intelligent_routing[RouteTypeNames[chosen[k]]].primary_urls])
          ELSE <<>>
      unique_urls == Dedup(selected_urls)
  IN  Take(IF Len(unique_urls) = 0 THEN start_pages ELSE unique_urls,
           PlainRouteLimit)

determine_intelligent_route(q) ==
  LET query_lower == Strip(Lower(q))
  IN  IF Len(q) = 0 THEN start_pages
      ELSE IF ContainsAny(query_lower,
                {<<"l","a","t","e","s","t">>, <<"r","e","c","e","n","t">>, <<"n","e","w">>, <<"u","p","d","a","t","e","d">>, <<"c","u","r","r","e","n","t">>})
        THEN LatestOverride
      ELSE IF Contains(query_lower, <<"g","u","i","d","e","l","i","n","e">>) \/ Contains(query_lower, <<"g","u","i","d","e","l","i","n","e","s">>)
        THEN GuidelineOverride
      ELSE ScoredRoutes(query_lower)

\* group + [r for r in base_routes if r not in group]
Prepend(group, base_routes) ==
  group \o SelectSeq(base_routes, LAMBDA r : r \notin Range(group))

determine_intelligent_route_enhanced(q, query_intent) ==
  LET base0 == determine_intelligent_route(q)
      base1 == IF query_intent.time_sensitivity = "latest"
                 THEN Prepend(<<"/notifications", "/circulars", "/updated-regulations">>, base0)
                 ELSE base0
      base2 == IF "regulation" \in Range(query_intent.document_types)
                 THEN Prepend(<<"/consolidated-gazette-notified-regulations",
                                "/updated-regulations">>, base1)
                 ELSE base1
      base3 == IF "circular" \in Range(query_intent.document_types)
                 THEN Prepend(<<"/circulars", "/notifications">>, base2)
                 ELSE base2
  IN  Take(base3, EnhancedRouteLimit)

----------------------------------------------------------------------------
(* The queries of the analyser harness *)

\* words the generated queries are made of; the empty word gives the
\* queries leading and trailing blanks
Vocabulary ==
  {<<>>, <<"x","x">>, <<"H","a","c","k">>, <<"l","a","t","e","s","t">>, <<"r","e","n","e","w","a","l">>, <<"2","0","2","3">>, <<"r","e","g","u","l","a","t","i","o","n">>,
   <<"c","i","r","c","u","l","a","r">>, <<"g","u","i","d","e","l","i","n","e","s">>, <<"o","n">>, <<"a","c","t">>, <<"u","r","g","e","n","t">>, <<"i","r","d","a","i">>}

\* queries the generated ones do not reach: the spec's scenarios, more
\* keywords than MaxWords words give, phrases, blanks other than a space
NamedQueries ==
  {<<"G","u","i","d","e","l","i","n","e","s"," ","o","n"," ","R","e","m","u","n","e","r","a","t","i","o","n"," ","o","f"," ","D","i","r","e","c","t","o","r","s"," ","a","n","d"," ","K","e","y"," ","M","a","n","a","g","e","r","i","a","l"," ","P","e","r","s","o","n","s"," ","o","f"," ","I","n","s","u","r","e","r","s">>,
   <<"i","r","d","a","i"," ","i","n","s","u","r","a","n","c","e"," ","r","e","g","u","l","a","t","i","o","n"," ","c","i","r","c","u","l","a","r"," ","g","u","i","d","e","l","i","n","e"," ","n","o","t","i","c","e"," ","p","o","l","i","c","y"," ","r","e","p","o","r","t">>,
   <<"u","n","i","t"," ","l","i","n","k","e","d"," ","i","n","s","u","r","a","n","c","e"," ","p","l","a","n">>,
   <<"c","o","m","m","u","n","i","t","y"," ","l","i","n","k","e","d","i","n">>,
   <<"e","x","p","r","e","s","s","i","o","n"," ","o","f"," ","i","n","t","e","r","e","s","t">>,
   <<"o","l","d"," ","a","c","t"," ","2","0","2","4">>,
   <<"i","m","p","o","r","t","a","n","t"," ","n","o","t","i","c","e">>,
   <<"p","r","e","v","i","o","u","s"," ","o","r","d","e","r">>,
   <<"s","q","l"," ","i","n","j","e","c","t","i","o","n">>,
   <<"\t","a","b"," ">>,
   <<"a"," ","b">>}

RECURSIVE WordLists(_)
WordLists(n) ==
  IF n = 0 THEN {<<>>}
  ELSE WordLists(n - 1)
         \cup {Append(ws, w) : ws \in {x \in WordLists(n - 1) : Len(x) = n - 1},
                               w \in Vocabulary}

Queries == {Join(ws) : ws \in WordLists(MaxWords)} \cup NamedQueries

NoIntent == [intent_type |-> "none"]

\* the variables of a harness that is not running
IdleAnalyze == apc = "idle" /\ plain_routes = <<>> /\ enhanced_routes = <<>>

\* lines 269-277: self.query_state after construction
FreshQueryState ==
  [current_query     |-> <<>>,
   query_intent      |-> None,
   visited_urls      |-> {},
   found_documents   |-> <<>>,
   document_cache    |-> <<>>,
   query_fingerprint |-> <<>>,
   search_strategy   |-> "comprehensive"]

\* lines 261-277: the instance after construction, used by one invocation
FreshInstance ==
  /\ query_state = FreshQueryState
  /\ visited_urls = {}
  /\ self_documents = <<>>
  /\ other_pc = "idle"
  /\ other_query = <<>>

IdleRun ==
  /\ FreshInstance
  /\ pc = "idle"
  /\ search_strategy = [focus_mode |-> "none"]
  /\ priority_urls = <<>>
  /\ web = <<>>
  /\ route_idx = 0
  /\ doc_data = <<>>
  /\ doc_idx = 0
  /\ page_documents = <<>>
  /\ all_documents = <<>>
  /\ high_relevance_documents = <<>>
  /\ documents_processed = 0
  /\ result = <<>>
  /\ events = <<>>

IdleScore ==
  /\ text = <<>>
  /\ fuzzy = [available |-> FALSE]
  /\ spc = "idle"
  /\ relevance = 0
  /\ enhanced = 0
  /\ detail_content = <<>>
  /\ plain_detail = 0
  /\ intent_detail = 0
  /\ rescored = 0

IdleFilter ==
  /\ fpc = "idle"
  /\ filter_documents = <<>>
  /\ filter_strategy = [focus_mode |-> "none"]
  /\ filtered_docs = <<>>

IdleExtract ==
  /\ anchors = <<>>
  /\ xpc = "idle"
  /\ link_idx = 0
  /\ processed_doc_ids = {}
  /\ documents = <<>>
  /\ attempts = <<>>
  /\ intent_documents = <<>>

InitAnalyze ==
  /\ query \in Queries
  /\ intent = NoIntent
  /\ apc = "start"
  /\ plain_routes = <<>>
  /\ enhanced_routes = <<>>
  /\ IdleRun
  /\ IdleScore
  /\ IdleExtract
  /\ IdleFilter

\* QueryAnalyzer.analyze_query(query)
AnalyzeQuery ==
  /\ apc = "start"
  /\ intent' = analyze_query(query)
  /\ apc' = "analyzed"
  /\ UNCHANGED <<query, plain_routes, enhanced_routes, rvars, ivars, svars, xvars, fvars>>

\* determine_intelligent_route(query)
PlanRoutes ==
  /\ apc = "analyzed"
  /\ plain_routes' = determine_intelligent_route(query)
  /\ apc' = "planned"
  /\ UNCHANGED <<query, intent, enhanced_routes, rvars, ivars, svars, xvars, fvars>>

\* determine_intelligent_route_enhanced(query, intent)
PlanRoutesEnhanced ==
  /\ apc = "planned"
  /\ enhanced_routes' = determine_intelligent_route_enhanced(query, intent)
  /\ apc' = "done"
  /\ UNCHANGED <<query, intent, plain_routes, rvars, ivars, svars, xvars, fvars>>

NextAnalyze == AnalyzeQuery \/ PlanRoutes \/ PlanRoutesEnhanced

SpecAnalyze == InitAnalyze /\ [][NextAnalyze]_vars

----------------------------------------------------------------------------
(* Scores and the search strategy *)

\* the fixed-point unit: 1.0 is ScoreOne (the scorer divides points, kept
\* in hundredths, by the ceiling 180.0)
ScoreOne == 18000

\* the score n / 1000
Permille(n) == (n * ScoreOne) \div 1000

determine_search_strategy(query_intent) ==
  LET base ==
        [search_depth |-> 2, document_filters |-> <<>>, time_filter |-> "None",
         max_documents |-> 50, early_stop_threshold |-> Permille(950),
         focus_mode |-> "none"]
      by_intent ==
        IF query_intent.intent_type = "specific_document"
          THEN [base EXCEPT !.search_depth = 3, !.max_documents = 20,
                            !.early_stop_threshold = Permille(980),
                            !.focus_mode = "precision"]
        ELSE IF query_intent.intent_type = "latest_updates"
          THEN [base EXCEPT !.search_depth = 2, !.max_documents = 30,
                            !.time_filter = "recent", !.focus_mode = "recency"]
        ELSE IF query_intent.intent_type = "regulatory_guidance"
          THEN [base EXCEPT !.search_depth = 3, !.max_documents = 40,
                            !.document_filters =
                               <<"regulation", "circular", "guideline">>,
                            !.focus_mode = "authority"]
        ELSE [base EXCEPT !.search_depth = 2, !.max_documents = 50,
                          !.focus_mode = "comprehensive"]
  IN  IF query_intent.urgency_level = "critical"
        THEN [by_intent EXCEPT
                !.early_stop_threshold = Permille(900),
                !.max_documents = IF by_intent.max_documents < 15
                                    THEN by_intent.max_documents ELSE 15]
      ELSE IF query_intent.urgency_level = "high"
        THEN [by_intent EXCEPT
                !.early_stop_threshold = Permille(930),
                !.max_documents = IF by_intent.max_documents < 25
                                    THEN by_intent.max_documents ELSE 25]
      ELSE by_intent

\* one minimum for every intent: the standard 0.05
get_intent_based_threshold_Flat(query_intent) == Permille(50)

get_intent_based_threshold(query_intent) ==
  IF query_intent.intent_type = "specific_document" THEN Permille(20)
  ELSE IF query_intent.intent_type = "latest_updates" THEN Permille(50)
  ELSE IF query_intent.intent_type = "regulatory_guidance" THEN Permille(30)
  ELSE Permille(50)

\* the score from which an accepted document counts as high-relevance
HighRelevance == Permille(800)

----------------------------------------------------------------------------
(* The site: documents and listing pages *)

\* What the extractor and the controller read of the document behind a
\* documentId: the listing row's best title candidate and its score, the
\* outcome of fetching the detail page, the detail page's score (after the
\* time / year boost), the length of the extracted content, whether the
\* link resolves to an http(s) URL, whether the titles carry a spam
\* marker, the value enhanced_relevance_scoring takes on "title content"
\* for either title, and what the text mentions.
Document(table_title, table_score, detail_ok, detail_score, content_len, rescore_table, rescore_detail) ==
  [has_table_title |-> table_title, table_score |-> table_score,
   detail_ok |-> detail_ok, detail_score |-> detail_score,
   content_len |-> content_len, url_http |-> TRUE, title_spam |-> FALSE,
   rescore_table |-> rescore_table, rescore_detail |-> rescore_detail,
   mentions |-> {}, recent_year |-> FALSE]

\* the documents with a role of their own
SpecialDocuments ==
  << \* 1: an exact match on its detail page
     Document(TRUE, Permille(500), TRUE, ScoreOne, 400, Permille(900), ScoreOne),
     \* 2: a strong listing title, a weaker detail page
     [Document(TRUE, Permille(850), TRUE, Permille(600), 400,
               Permille(850), Permille(600)) EXCEPT !.recent_year = TRUE],
     \* 3: no listing title, a weak detail page lifted by the year boost
     Document(FALSE, 0, TRUE, Permille(60), 400, 0, Permille(30)),
     \* 4: an exact match whose detail page has no content area
     \*    ("Content not available")
     Document(FALSE, 0, TRUE, ScoreOne, 21, 0, ScoreOne),
     \* 5: a strong listing title whose detail page cannot be fetched
     Document(TRUE, Permille(900), FALSE, 0, 0, Permille(900), 0) >>

\* the further documents of the high-relevance listing: as document 2
HighDocument == SpecialDocuments[2]

\* the documents of the long listing
FillerDocument ==
  Document(FALSE, 0, TRUE, Permille(500), 400, 0, Permille(500))

SpecialIds == DOMAIN SpecialDocuments

HighIds == {Len(SpecialDocuments) + 1, Len(SpecialDocuments) + 2}

FillerIds == (Len(SpecialDocuments) + 3)..(Len(SpecialDocuments) + 2 + LongLen)

\* a document with a weak listing title and a weaker detail page
WeakTitleDocument ==
  Document(TRUE, Permille(200), TRUE, Permille(150), 400, Permille(200), Permille(150))

WeakTitleId == Len(SpecialDocuments) + 3 + LongLen

\* an exact match whose title holds a spam marker
SpamDocument ==
  [Document(TRUE, Permille(900), TRUE, ScoreOne, 400, ScoreOne, ScoreOne)
     EXCEPT !.title_spam = TRUE]

SpamId == WeakTitleId + 1

\* an exact match whose link is not an http or https address
ForeignUrlDocument ==
  [Document(TRUE, Permille(900), TRUE, ScoreOne, 400, ScoreOne, ScoreOne)
     EXCEPT !.url_http = FALSE]

ForeignUrlId == WeakTitleId + 2

\* a listing title equal to the query whose text rescores to 0.96
NearMatchDocument ==
  Document(TRUE, ScoreOne, TRUE, Permille(900), 400, Permille(960), Permille(900))

NearMatchId == WeakTitleId + 3

Corpus ==
  [id \in SpecialIds \cup HighIds \cup FillerIds
            \cup {WeakTitleId, SpamId, ForeignUrlId, NearMatchId} |->
     IF id \in SpecialIds THEN SpecialDocuments[id]
     ELSE IF id \in HighIds THEN HighDocument
     ELSE IF id \in FillerIds THEN FillerDocument
     ELSE IF id = WeakTitleId THEN WeakTitleDocument
     ELSE IF id = SpamId THEN SpamDocument
     ELSE IF id = ForeignUrlId THEN ForeignUrlDocument
     ELSE NearMatchDocument]

\* a route's page: the fetch outcome and, row by row, the documentId the
\* row links to
FailedPage == [ok |-> FALSE, rows |-> <<>>]

Listing(rows) == [ok |-> TRUE, rows |-> rows]

RECURSIVE SeqsUpTo(_, _)
SeqsUpTo(S, n) ==
  IF n = 0 THEN {<<>>}
  ELSE SeqsUpTo(S, n - 1)
         \cup {Append(xs, x) : xs \in {y \in SeqsUpTo(S, n - 1) : Len(y) = n - 1},
                               x \in S}

\* the sites of n routes with at most t listing rows in all
RECURSIVE ShortWebs(_, _)
ShortWebs(n, t) ==
  IF n = 0 THEN {<<>>}
  ELSE UNION {{<<p>> \o w : w \in ShortWebs(n - 1, t - Len(p.rows))} :
                p \in {FailedPage} \cup {Listing(r) : r \in SeqsUpTo(SpecialIds, t)}}

\* a listing longer than the smallest document budget
LongListing == Listing([k \in 1..LongLen |-> Len(SpecialDocuments) + 2 + k])

\* a listing of three high-relevance documents
HighListing ==
  Listing(<<2, Len(SpecialDocuments) + 1, Len(SpecialDocuments) + 2>>)

\* a listing of two documents that fail quality validation and two that
\* pass it, the second with the higher rescored value
PoorListing == Listing(<<SpamId, ForeignUrlId, NearMatchId, 1>>)

\* the sites with one of the three on a route and at most one row elsewhere
BigWebs(n) ==
  {[w EXCEPT ![i] = big] :
     w \in ShortWebs(n, 1), i \in 1..n, big \in {LongListing, HighListing, PoorListing}}

Webs(n) == ShortWebs(n, MaxListed) \cup BigWebs(n)

----------------------------------------------------------------------------
(* The intent-aware candidate extractor, as run() uses it *)

\* a membership test that finds no documentId processed before
Seen_Never(document_id, ids) == FALSE

\* lines 1112, 1201 and 1902: document_id in processed_doc_ids
Seen(document_id, ids) == document_id \in ids

\* the doc_info dictionary the extractor appends for a row
DocInfo(id, d, final_title, final_score) ==
  [document_id |-> id,
   title |-> final_title,
   url_http |-> d.url_http,
   title_spam |-> d.title_spam,
   content_len |-> d.content_len,
   relevance_score |-> final_score,
   mentions |-> d.mentions,
   recent_year |-> d.recent_year]

\* lines 1910-1940: the title and score choice and the quality floor for
\* one new documentId; <<>> when nothing is appended
ExtractRow(id, query_intent) ==
  LET d == Corpus[id]
      best_title == IF d.has_table_title THEN "table" ELSE ""
      best_score == IF d.has_table_title THEN d.table_score ELSE 0
      final_score == IF best_score > d.detail_score THEN best_score ELSE d.detail_score
      final_title == IF d.detail_score > best_score THEN "detail" ELSE best_title
  IN  IF /\ d.detail_ok
         /\ final_score >= get_intent_based_threshold(query_intent)
         /\ final_title # ""
        THEN <<DocInfo(id, d, final_title, final_score)>>
        ELSE <<>>

\* extract_irdai_documents_enhanced_with_intent over the rows of a page:
\* a documentId met before in this call is skipped (processed_doc_ids)
RECURSIVE extract_irdai_documents_enhanced_with_intent(_, _)
extract_irdai_documents_enhanced_with_intent(rows, query_intent) ==
  IF Len(rows) = 0 THEN <<>>
  ELSE LET front == SubSeq(rows, 1, Len(rows) - 1)
           id    == rows[Len(rows)]
       IN  IF Seen(id, Range(front))
             THEN extract_irdai_documents_enhanced_with_intent(front, query_intent)
             ELSE extract_irdai_documents_enhanced_with_intent(front, query_intent)
                    \o ExtractRow(id, query_intent)

----------------------------------------------------------------------------
(* The search strategy controller *)

\* the smallest content validate_document_quality lets through
MinContentLength == 50

\* a validation that looks at the title's presence and the content only
validate_document_quality_ContentOnly(document) ==
  /\ document.title # ""
  /\ document.content_len >= MinContentLength

validate_document_quality(document) ==
  /\ document.title # ""
  /\ document.content_len >= MinContentLength
  /\ document.url_http
  /\ ~document.title_spam
  /\ document.relevance_score >= Permille(10)

\* enhanced_relevance_scoring(f"{title} {content}", intent) for a doc_info
Rescore(doc_info) ==
  IF doc_info.title = "detail"
    THEN Corpus[doc_info.document_id].rescore_detail
    ELSE Corpus[doc_info.document_id].rescore_table

\* time.strftime('%Y') and the year before
recent_years == {<<"2","0","2","6">>, <<"2","0","2","5">>}

\* a document whose score adds the rescored value to the extractor's
create_enhanced_document_SumsScores(doc_info, score, query_intent, is_perfect_match) ==
  [document_id |-> doc_info.document_id,
   title |-> doc_info.title,
   url_http |-> doc_info.url_http,
   relevance_score |-> doc_info.relevance_score + score,
   is_perfect_match |-> is_perfect_match,
   content |-> [envelope |-> IF is_perfect_match THEN "perfect_match" ELSE "ranked",
                body_len |-> doc_info.content_len],
   content_types |-> doc_info.mentions \cup Range(query_intent.document_types),
   content_recent_year |->
     \/ doc_info.recent_year
     \/ (Cardinality(query_intent.keywords) <= 5
           /\ query_intent.keywords \cap recent_years # {})]

\* create_enhanced_document: the ComprehensiveDocument; its content is one
\* of two fixed envelopes around the extracted content, of which the model
\* keeps the length and what apply_final_filtering looks for in it
\* a document whose content does not name the intent's document types
create_enhanced_document_NoIntentTypes(doc_info, score, query_intent, is_perfect_match) ==
  [document_id |-> doc_info.document_id,
   title |-> doc_info.title,
   url_http |-> doc_info.url_http,
   relevance_score |-> score,
   is_perfect_match |-> is_perfect_match,
   content |-> [envelope |-> IF is_perfect_match THEN "perfect_match" ELSE "ranked",
                body_len |-> doc_info.content_len],
   content_types |-> doc_info.mentions,
   content_recent_year |->
     \/ doc_info.recent_year
     \/ (Cardinality(query_intent.keywords) <= 5
           /\ query_intent.keywords \cap recent_years # {})]

create_enhanced_document(doc_info, score, query_intent, is_perfect_match) ==
  [document_id |-> doc_info.document_id,
   title |-> doc_info.title,
   url_http |-> doc_info.url_http,
   relevance_score |-> score,
   is_perfect_match |-> is_perfect_match,
   content |-> [envelope |-> IF is_perfect_match THEN "perfect_match" ELSE "ranked",
                body_len |-> doc_info.content_len],
   content_types |-> doc_info.mentions \cup Range(query_intent.document_types),
   content_recent_year |->
     \/ doc_info.recent_year
     \/ (Cardinality(query_intent.keywords) <= 5
           /\ query_intent.keywords \cap recent_years # {})]

\* a filter applied even when nothing passes it
FilterIfAny_NoFallback(docs, filtered) == filtered

\* the result left in the order of acceptance
SortDesc_None(docs) == docs

\* all_documents.sort(key=relevance_score, reverse=True): a stable sort
SortDesc(docs) ==
  LET n == Len(docs)
      before(i) == {j \in 1..n :
                      \/ docs[j].relevance_score > docs[i].relevance_score
                      \/ (docs[j].relevance_score = docs[i].relevance_score /\ j < i)}
  IN  [k \in 1..n |-> docs[CHOOSE i \in 1..n : Cardinality(before(i)) = k - 1]]

\* a filter of apply_final_filtering: applied only if it leaves something
FilterIfAny(docs, filtered) == IF Len(filtered) > 0 THEN filtered ELSE docs

apply_final_filtering(docs, strategy, query_intent) ==
  LET type_filtered ==
        IF Len(strategy.document_filters) > 0
          THEN FilterIfAny(docs,
                 SelectSeq(docs, LAMBDA doc :
                   doc.content_types \cap Range(strategy.document_filters) # {}))
          ELSE docs
      time_filtered ==
        IF strategy.time_filter = "recent"
          THEN FilterIfAny(type_filtered,
                 SelectSeq(type_filtered, LAMBDA doc : doc.content_recent_year))
          ELSE type_filtered
  IN  Take(time_filtered, strategy.max_documents)

\* the valid queries the controller is run on: one per intent type and
\* route planner, with and without urgency
SearchQueries ==
  {<<"l","a","t","e","s","t"," ","c","i","r","c","u","l","a","r">>,
   <<"u","r","g","e","n","t"," ","i","r","d","a","i"," ","r","e","g","u","l","a","t","i","o","n">>,
   <<"g","u","i","d","e","l","i","n","e","s"," ","o","n"," ","r","e","m","u","n","e","r","a","t","i","o","n">>,
   <<"i","m","p","o","r","t","a","n","t"," ","i","r","d","a","i"," ","b","u","d","g","e","t">>,
   <<"R","e","c","e","n","t"," ","n","e","w","s">>}

\* the queries the controller is run on: the searches, and every query of
\* the analyser harness that is short once trimmed or holds a denylist term
\* in either case
RunQueries ==
  SearchQueries \cup
    {q \in Queries : Len(Strip(q)) < 3 \/ ContainsAny(Lower(q), harmful_patterns)}

InitRun ==
  /\ query \in RunQueries
  /\ intent = NoIntent
  /\ IdleAnalyze
  /\ pc = "intake"
  /\ search_strategy = [focus_mode |-> "none"]
  /\ priority_urls = <<>>
  /\ web = <<>>
  /\ route_idx = 0
  /\ doc_data = <<>>
  /\ doc_idx = 0
  /\ page_documents = <<>>
  /\ all_documents = <<>>
  /\ high_relevance_documents = <<>>
  /\ documents_processed = 0
  /\ result = <<>>
  /\ events = <<>>
  /\ FreshInstance
  /\ IdleScore
  /\ IdleExtract
  /\ IdleFilter

\* d[key] = value on a dict
SetKey(d, key, value) ==
  [k \in DOMAIN d \cup {key} |-> IF k = key THEN value ELSE d[k]]

\* lines 1250-1257: the dict clear_query_state puts in place of the old one
ClearedQueryState(old) ==
  [current_query     |-> <<>>,
   visited_urls      |-> {},
   found_documents   |-> <<>>,
   document_cache    |-> <<>>,
   query_fingerprint |-> <<>>,
   previous_query    |-> old.current_query]

\* lines 1646-1660: self.query_state once the invocation for q has cleared
\* the state and recorded its query, its intent and, past the guard rail,
\* its strategy
RecordedQueryState(old, q) ==
  LET recorded == SetKey(SetKey(ClearedQueryState(old), "current_query", q),
                         "query_intent", analyze_query(q))
  IN  IF analyze_query(q).intent_type \in {"invalid", "blocked"}
        THEN recorded
        ELSE SetKey(recorded, "search_strategy",
                    determine_search_strategy(analyze_query(q)))

\* return value of the invocation
Return(docs) ==
  /\ result' = docs
  /\ pc' = "done"

\* lines 1641-1643: the input guard rail
RejectShort ==
  /\ pc = "intake"
  /\ TooShort(query)
  /\ Return(<<>>)
  /\ UNCHANGED <<qvars, avars, svars, xvars, fvars, ivars, search_strategy, priority_urls, web, route_idx,
                 doc_data, doc_idx, page_documents, all_documents,
                 high_relevance_documents, documents_processed, events>>

\* lines 1645-1656: the analysis, and the guard rail on its outcome
RejectIntent ==
  /\ pc = "intake"
  /\ ~TooShort(query)
  /\ analyze_query(query).intent_type \in {"invalid", "blocked"}
  /\ intent' = analyze_query(query)
  /\ visited_urls' = {}
  /\ self_documents' = <<>>
  /\ query_state' = RecordedQueryState(query_state, query)
  /\ Return(<<>>)
  /\ UNCHANGED <<query, avars, svars, xvars, fvars, other_pc, other_query, search_strategy,
                 priority_urls, web, route_idx,
                 doc_data, doc_idx, page_documents, all_documents,
                 high_relevance_documents, documents_processed, events>>

\* lines 1670-1674: the planner run() calls
PlanFor(q, query_intent) ==
  IF Len(query_intent.document_types) > 0
    THEN determine_intelligent_route_enhanced(q, query_intent)
    ELSE determine_intelligent_route(q)

\* a StartSearch that takes the intent the instance holds for its current
\* query, when it holds one, in place of analysing its own query
StartSearch_ReusesIntent ==
  /\ pc = "intake"
  /\ ~TooShort(query)
  /\ analyze_query(query).intent_type \notin {"invalid", "blocked"}
  /\ intent' = IF query_state.current_query # <<>> /\ "search_strategy" \in DOMAIN query_state
                 THEN query_state.query_intent
                 ELSE analyze_query(query)
  /\ visited_urls' = {}
  /\ self_documents' = <<>>
  /\ query_state' = RecordedQueryState(query_state, query)
  /\ search_strategy' = determine_search_strategy(intent')
  /\ priority_urls' = PlanFor(query, intent')
  /\ web' \in Webs(Len(priority_urls'))
  /\ route_idx' = 1
  /\ documents_processed' = 0
  /\ all_documents' = <<>>
  /\ high_relevance_documents' = <<>>
  /\ pc' = "route"
  /\ UNCHANGED <<query, avars, svars, xvars, fvars, other_pc, other_query, doc_data, doc_idx,
                 page_documents, result, events>>

\* lines 1645-1679: analysis, strategy and routing of a query that passes
\* the guard rails; the site is as it stands when the search starts
StartSearch ==
  /\ pc = "intake"
  /\ ~TooShort(query)
  /\ analyze_query(query).intent_type \notin {"invalid", "blocked"}
  /\ intent' = analyze_query(query)
  /\ visited_urls' = {}
  /\ self_documents' = <<>>
  /\ query_state' = RecordedQueryState(query_state, query)
  /\ search_strategy' = determine_search_strategy(intent')
  /\ priority_urls' = PlanFor(query, intent')
  /\ web' \in Webs(Len(priority_urls'))
  /\ route_idx' = 1
  /\ documents_processed' = 0
  /\ all_documents' = <<>>
  /\ high_relevance_documents' = <<>>
  /\ pc' = "route"
  /\ UNCHANGED <<query, avars, svars, xvars, fvars, other_pc, other_query, doc_data, doc_idx, page_documents, result, events>>

\* the for loop over priority_urls has run out of routes
RoutesExhausted ==
  /\ pc = "route"
  /\ route_idx > Len(priority_urls)
  /\ pc' = "post"
  /\ UNCHANGED <<qvars, avars, svars, xvars, fvars, ivars, search_strategy, priority_urls, web, route_idx,
                 doc_data, doc_idx, page_documents, all_documents,
                 high_relevance_documents, documents_processed, result, events>>

\* lines 1682-1684: the budget check before a route
BudgetBreak ==
  /\ pc = "route"
  /\ route_idx <= Len(priority_urls)
  /\ documents_processed >= search_strategy.max_documents
  /\ pc' = "post"
  /\ UNCHANGED <<qvars, avars, svars, xvars, fvars, ivars, search_strategy, priority_urls, web, route_idx,
                 doc_data, doc_idx, page_documents, all_documents,
                 high_relevance_documents, documents_processed, result, events>>

\* a failed fetch that ends the loop over the routes instead of continuing it
FetchFail_Abort ==
  /\ pc = "route"
  /\ route_idx <= Len(priority_urls)
  /\ documents_processed < search_strategy.max_documents
  /\ ~web[route_idx].ok
  /\ events' = Append(events, [kind |-> "fetch", route |-> route_idx, ok |-> FALSE])
  /\ pc' = "post"
  /\ UNCHANGED <<qvars, avars, svars, xvars, fvars, ivars, search_strategy, priority_urls, web, route_idx,
                 doc_data, doc_idx, page_documents, all_documents,
                 high_relevance_documents, documents_processed, result>>

\* lines 1689-1693 and 1795-1840: the page cannot be fetched or parsed,
\* scrape_page_with_query_enhanced returns None and the loop continues
FetchFail ==
  /\ pc = "route"
  /\ route_idx <= Len(priority_urls)
  /\ documents_processed < search_strategy.max_documents
  /\ ~web[route_idx].ok
  /\ events' = Append(events, [kind |-> "fetch", route |-> route_idx, ok |-> FALSE])
  /\ route_idx' = route_idx + 1
  /\ UNCHANGED <<qvars, avars, svars, xvars, fvars, ivars, pc, search_strategy, priority_urls, web,
                 doc_data, doc_idx, page_documents, all_documents,
                 high_relevance_documents, documents_processed, result>>

\* lines 1689-1699: the page is fetched and its candidates extracted
FetchPage ==
  /\ pc = "route"
  /\ route_idx <= Len(priority_urls)
  /\ documents_processed < search_strategy.max_documents
  /\ web[route_idx].ok
  /\ events' = Append(events, [kind |-> "fetch", route |-> route_idx, ok |-> TRUE])
  /\ doc_data' = extract_irdai_documents_enhanced_with_intent(web[route_idx].rows, intent)
  /\ doc_idx' = 1
  /\ page_documents' = <<>>
  /\ pc' = "candidate"
  /\ UNCHANGED <<qvars, avars, svars, xvars, fvars, ivars, search_strategy, priority_urls, web, route_idx,
                 all_documents, high_relevance_documents, documents_processed,
                 result>>

\* the candidate the inner loop is at
Candidate == doc_data[doc_idx]

\* an inner loop that does not look at the budget
AtCandidate_NoBudget ==
  /\ pc = "candidate"
  /\ doc_idx <= Len(doc_data)


AtCandidate ==
  /\ pc = "candidate"
  /\ doc_idx <= Len(doc_data)
  /\ documents_processed < search_strategy.max_documents

\* the inner loop has run out of candidates
CandidatesExhausted ==
  /\ pc = "candidate"
  /\ doc_idx > Len(doc_data)
  /\ pc' = "route_end"
  /\ UNCHANGED <<qvars, avars, svars, xvars, fvars, ivars, search_strategy, priority_urls, web, route_idx,
                 doc_data, doc_idx, page_documents, all_documents,
                 high_relevance_documents, documents_processed, result, events>>

\* lines 1701-1702: the budget check before a candidate
CandidateBudgetBreak ==
  /\ pc = "candidate"
  /\ doc_idx <= Len(doc_data)
  /\ documents_processed >= search_strategy.max_documents
  /\ pc' = "route_end"
  /\ UNCHANGED <<qvars, avars, svars, xvars, fvars, ivars, search_strategy, priority_urls, web, route_idx,
                 doc_data, doc_idx, page_documents, all_documents,
                 high_relevance_documents, documents_processed, result, events>>

\* lines 1704-1706: a candidate that fails validation is passed over
SkipInvalid ==
  /\ AtCandidate
  /\ ~validate_document_quality(Candidate)
  /\ events' = Append(events, [kind |-> "invalid", route |-> route_idx,
                               id |-> Candidate.document_id])
  /\ doc_idx' = doc_idx + 1
  /\ UNCHANGED <<qvars, avars, svars, xvars, fvars, ivars, pc, search_strategy, priority_urls, web,
                 route_idx, doc_data, page_documents, all_documents,
                 high_relevance_documents, documents_processed, result>>

\* the record of a rescoring
Scored(accepted) ==
  [kind |-> "scored", route |-> route_idx, id |-> Candidate.document_id,
   score |-> Rescore(Candidate), accepted |-> accepted]

\* an early stop that returns the perfect match on top of what was accepted
PerfectMatch_KeepsAccepted ==
  /\ AtCandidate
  /\ validate_document_quality(Candidate)
  /\ Rescore(Candidate) >= search_strategy.early_stop_threshold
  /\ events' = Append(events, Scored(FALSE))
  /\ Return(<<create_enhanced_document(Candidate, Rescore(Candidate), intent, TRUE)>>
              \o all_documents \o page_documents)
  /\ UNCHANGED <<qvars, avars, svars, xvars, fvars, ivars, search_strategy, priority_urls, web, route_idx,
                 doc_data, doc_idx, page_documents, all_documents,
                 high_relevance_documents, documents_processed>>

\* an early stop that is put off: the perfect match joins the page's
\* documents and the loop goes on
PerfectMatch_Deferred ==
  /\ AtCandidate
  /\ validate_document_quality(Candidate)
  /\ Rescore(Candidate) >= search_strategy.early_stop_threshold
  /\ page_documents' =
       Append(page_documents,
              create_enhanced_document(Candidate, Rescore(Candidate), intent, TRUE))
  /\ documents_processed' = documents_processed + 1
  /\ events' = Append(events, Scored(TRUE))
  /\ doc_idx' = doc_idx + 1
  /\ UNCHANGED <<qvars, avars, svars, xvars, fvars, ivars, pc, search_strategy, priority_urls, web,
                 route_idx, doc_data, all_documents, high_relevance_documents, result>>

\* a hard early stop that returns the best candidate left on the page
PerfectMatch_BestOfPage ==
  /\ AtCandidate
  /\ validate_document_quality(Candidate)
  /\ Rescore(Candidate) >= search_strategy.early_stop_threshold
  /\ events' = Append(events, Scored(FALSE))
  /\ LET left == {i \in doc_idx..Len(doc_data) : validate_document_quality(doc_data[i])}
         best == CHOOSE i \in left :
                   \A j \in left : Rescore(doc_data[i]) >= Rescore(doc_data[j])
     IN  Return(<<create_enhanced_document(doc_data[best], Rescore(doc_data[best]),
                                           intent, TRUE)>>)
  /\ UNCHANGED <<qvars, avars, svars, xvars, fvars, ivars, search_strategy, priority_urls, web, route_idx,
                 doc_data, doc_idx, page_documents, all_documents,
                 high_relevance_documents, documents_processed>>

\* lines 1708-1723: the hard early stop
PerfectMatch ==
  /\ AtCandidate
  /\ validate_document_quality(Candidate)
  /\ Rescore(Candidate) >= search_strategy.early_stop_threshold
  /\ events' = Append(events, Scored(FALSE))
  /\ Return(<<create_enhanced_document(Candidate, Rescore(Candidate), intent, TRUE)>>)
  /\ UNCHANGED <<qvars, avars, svars, xvars, fvars, ivars, search_strategy, priority_urls, web, route_idx,
                 doc_data, doc_idx, page_documents, all_documents,
                 high_relevance_documents, documents_processed>>

\* an acceptance that does not look at the early-stop threshold
Accept_NoCeiling ==
  /\ AtCandidate
  /\ validate_document_quality(Candidate)
  /\ Rescore(Candidate) >= get_intent_based_threshold(intent)
  /\ LET document == create_enhanced_document(Candidate, Rescore(Candidate), intent, FALSE)
     IN  /\ page_documents' = Append(page_documents, document)
         /\ high_relevance_documents' =
              IF Rescore(Candidate) >= HighRelevance
                THEN Append(high_relevance_documents, document)
                ELSE high_relevance_documents
  /\ documents_processed' = documents_processed + 1
  /\ events' = Append(events, Scored(TRUE))
  /\ doc_idx' = doc_idx + 1
  /\ UNCHANGED <<qvars, avars, svars, xvars, fvars, ivars, pc, search_strategy, priority_urls, web,
                 route_idx, doc_data, all_documents, result>>

\* lines 1725-1736: acceptance at the intent-based minimum
Accept ==
  /\ AtCandidate
  /\ validate_document_quality(Candidate)
  /\ Rescore(Candidate) < search_strategy.early_stop_threshold
  /\ Rescore(Candidate) >= get_intent_based_threshold(intent)
  /\ LET document == create_enhanced_document(Candidate, Rescore(Candidate), intent, FALSE)
     IN  /\ page_documents' = Append(page_documents, document)
         /\ high_relevance_documents' =
              IF Rescore(Candidate) >= HighRelevance
                THEN Append(high_relevance_documents, document)
                ELSE high_relevance_documents
  /\ documents_processed' = documents_processed + 1
  /\ events' = Append(events, Scored(TRUE))
  /\ doc_idx' = doc_idx + 1
  /\ UNCHANGED <<qvars, avars, svars, xvars, fvars, ivars, pc, search_strategy, priority_urls, web,
                 route_idx, doc_data, all_documents, result>>

\* line 1728, else: a candidate below the minimum is passed over
SkipLow ==
  /\ AtCandidate
  /\ validate_document_quality(Candidate)
  /\ Rescore(Candidate) < search_strategy.early_stop_threshold
  /\ Rescore(Candidate) < get_intent_based_threshold(intent)
  /\ events' = Append(events, Scored(FALSE))
  /\ doc_idx' = doc_idx + 1
  /\ UNCHANGED <<qvars, avars, svars, xvars, fvars, ivars, pc, search_strategy, priority_urls, web,
                 route_idx, doc_data, page_documents, all_documents,
                 high_relevance_documents, documents_processed, result>>

\* a soft early stop that does not look at the urgency
SoftStopDue_AnyUrgency == Len(high_relevance_documents) >= 3

\* line 1742: the condition of the soft early stop
SoftStopDue ==
  /\ Len(high_relevance_documents) >= 3
  /\ intent.urgency_level \in {"critical", "high"}

\* lines 1738-1744: the page's documents join the result, soft early stop
SoftStop ==
  /\ pc = "route_end"
  /\ SoftStopDue
  /\ all_documents' = all_documents \o page_documents
  /\ pc' = "post"
  /\ UNCHANGED <<qvars, avars, svars, xvars, fvars, ivars, search_strategy, priority_urls, web, route_idx,
                 doc_data, doc_idx, page_documents, high_relevance_documents,
                 documents_processed, result, events>>

\* lines 1738-1744: the page's documents join the result, on to the next route
\* a loop that does not move on to the next route
NextRoute_SameRoute ==
  /\ pc = "route_end"
  /\ ~SoftStopDue
  /\ all_documents' = all_documents \o page_documents
  /\ pc' = "route"
  /\ UNCHANGED <<qvars, avars, svars, xvars, fvars, ivars, search_strategy, priority_urls, web,
                 route_idx, doc_data, doc_idx, page_documents, high_relevance_documents,
                 documents_processed, result, events>>

NextRoute ==
  /\ pc = "route_end"
  /\ ~SoftStopDue
  /\ all_documents' = all_documents \o page_documents
  /\ route_idx' = route_idx + 1
  /\ pc' = "route"
  /\ UNCHANGED <<qvars, avars, svars, xvars, fvars, ivars, search_strategy, priority_urls, web,
                 doc_data, doc_idx, page_documents, high_relevance_documents,
                 documents_processed, result, events>>

\* lines 1750-1762: sort, final filtering, return
PostProcess ==
  /\ pc = "post"
  /\ Return(apply_final_filtering(SortDesc(all_documents), search_strategy, intent))
  /\ UNCHANGED <<qvars, avars, svars, xvars, fvars, ivars, search_strategy, priority_urls, web, route_idx,
                 doc_data, doc_idx, page_documents, all_documents,
                 high_relevance_documents, documents_processed, events>>

Next ==
  \/ RejectShort
  \/ RejectIntent
  \/ StartSearch
  \/ RoutesExhausted
  \/ BudgetBreak
  \/ FetchFail
  \/ FetchPage
  \/ CandidatesExhausted
  \/ CandidateBudgetBreak
  \/ SkipInvalid
  \/ PerfectMatch
  \/ Accept
  \/ SkipLow
  \/ SoftStop
  \/ NextRoute
  \/ PostProcess

Spec == InitRun /\ [][Next]_vars

\* the position of run(): the statement it is at, the route and the candidate
position == <<pc, route_idx, doc_idx>>

\* lines 1681-1762: run() executes its next statement; every step of Next
\* moves the position and no statement follows the return
Proceed ==
  /\ pc # "done"
  /\ pc' \in {"route", "candidate", "route_end", "post", "done"}
  /\ route_idx' \in {route_idx, route_idx + 1}
  /\ doc_idx' \in {1, doc_idx, doc_idx + 1}

\* run() is one sequential thread and every request it makes carries a
\* timeout: while it has not returned, its next statement is executed
SpecLive == InitRun /\ [][Next]_vars /\ WF_position(Proceed)

----------------------------------------------------------------------------
(* Two invocations on one instance: the one above, and a second one seen
   through what it does to the instance *)

\* the queries of the invocation that is followed
SharedQueries ==
  {<<"u","r","g","e","n","t"," ","i","r","d","a","i"," ","r","e","g","u","l","a","t","i","o","n">>, <<"i","m","p","o","r","t","a","n","t"," ","i","r","d","a","i"," ","b","u","d","g","e","t">>, <<"x","x">>, <<"H","a","c","k">>}

\* the queries of the second invocation
OtherQueries == {<<"l","a","t","e","s","t"," ","c","i","r","c","u","l","a","r">>}

\* line 1650, second invocation: its analysis of its query
OtherIntent == [q \in OtherQueries |-> analyze_query(q)]

InitShared ==
  /\ query \in SharedQueries
  /\ intent = NoIntent
  /\ IdleAnalyze
  /\ pc = "intake"
  /\ search_strategy = [focus_mode |-> "none"]
  /\ priority_urls = <<>>
  /\ web = <<>>
  /\ route_idx = 0
  /\ doc_data = <<>>
  /\ doc_idx = 0
  /\ page_documents = <<>>
  /\ all_documents = <<>>
  /\ high_relevance_documents = <<>>
  /\ documents_processed = 0
  /\ result = <<>>
  /\ events = <<>>
  /\ query_state = FreshQueryState
  /\ visited_urls = {}
  /\ self_documents = <<>>
  /\ other_pc = "intake"
  /\ other_query \in OtherQueries
  /\ IdleScore
  /\ IdleExtract
  /\ IdleFilter

\* line 1646, second invocation: clear_query_state()
OtherClears ==
  /\ other_pc = "intake"
  /\ visited_urls' = {}
  /\ self_documents' = <<>>
  /\ query_state' = ClearedQueryState(query_state)
  /\ other_pc' = "cleared"
  /\ UNCHANGED <<qvars, avars, rvars, svars, xvars, fvars, other_query>>

\* line 1647, second invocation: it records its query
OtherRecordsQuery ==
  /\ other_pc = "cleared"
  /\ query_state' = SetKey(query_state, "current_query", other_query)
  /\ other_pc' = "named"
  /\ UNCHANGED <<qvars, avars, rvars, svars, xvars, fvars, visited_urls, self_documents, other_query>>

\* line 1651, second invocation: it records its intent
OtherRecordsIntent ==
  /\ other_pc = "named"
  /\ query_state' = SetKey(query_state, "query_intent", OtherIntent[other_query])
  /\ other_pc' = IF OtherIntent[other_query].intent_type \in {"invalid", "blocked"}
                   THEN "done" ELSE "analysed"
  /\ UNCHANGED <<qvars, avars, rvars, svars, xvars, fvars, visited_urls, self_documents, other_query>>

\* line 1660, second invocation: it records its strategy; the rest of it
\* works on local variables
OtherRecordsStrategy ==
  /\ other_pc = "analysed"
  /\ query_state' = SetKey(query_state, "search_strategy",
                           determine_search_strategy(OtherIntent[other_query]))
  /\ other_pc' = "done"
  /\ UNCHANGED <<qvars, avars, rvars, svars, xvars, fvars, visited_urls, self_documents, other_query>>

NextShared ==
  \/ Next
  \/ OtherClears
  \/ OtherRecordsQuery
  \/ OtherRecordsIntent
  \/ OtherRecordsStrategy

SpecShared == InitShared /\ [][NextShared]_vars

----------------------------------------------------------------------------
(* The invocation as a function of its query and the site: what it returns
   on an instance nobody else uses *)

\* lines 1700-1736: the inner loop from candidate i on; acc holds the page's
\* documents, the high-relevance documents, the counter and the perfect match
RECURSIVE CandidatesAlone(_, _, _, _, _)
CandidatesAlone(rows, i, acc, query_intent, strategy) ==
  IF i > Len(rows) \/ acc.processed >= strategy.max_documents THEN acc
  ELSE IF ~validate_document_quality(rows[i])
    THEN CandidatesAlone(rows, i + 1, acc, query_intent, strategy)
  ELSE IF Rescore(rows[i]) >= strategy.early_stop_threshold
    THEN [acc EXCEPT !.perfect =
            <<create_enhanced_document(rows[i], Rescore(rows[i]), query_intent, TRUE)>>]
  ELSE IF Rescore(rows[i]) >= get_intent_based_threshold(query_intent)
    THEN LET document == create_enhanced_document(rows[i], Rescore(rows[i]),
                                                  query_intent, FALSE)
         IN  CandidatesAlone(rows, i + 1,
               [acc EXCEPT !.page = Append(@, document),
                           !.processed = @ + 1,
                           !.high = IF Rescore(rows[i]) >= HighRelevance
                                      THEN Append(@, document) ELSE @],
               query_intent, strategy)
  ELSE CandidatesAlone(rows, i + 1, acc, query_intent, strategy)

\* lines 1680-1762: the loop over the routes from route r on, and the return
RECURSIVE RoutesAlone(_, _, _, _, _)
RoutesAlone(w, r, acc, query_intent, strategy) ==
  IF r > Len(w) \/ acc.processed >= strategy.max_documents
    THEN apply_final_filtering(SortDesc(acc.all), strategy, query_intent)
  ELSE IF ~w[r].ok THEN RoutesAlone(w, r + 1, acc, query_intent, strategy)
  ELSE LET seen == CandidatesAlone(
                     extract_irdai_documents_enhanced_with_intent(w[r].rows, query_intent),
                     1,
                     [page |-> <<>>, high |-> acc.high, processed |-> acc.processed,
                      perfect |-> <<>>],
                     query_intent, strategy)
           after == [all |-> acc.all \o seen.page, high |-> seen.high,
                     processed |-> seen.processed]
       IN  IF seen.perfect # <<>> THEN seen.perfect
           ELSE IF Len(after.high) >= 3 /\ query_intent.urgency_level \in {"critical", "high"}
             THEN apply_final_filtering(SortDesc(after.all), strategy, query_intent)
           ELSE RoutesAlone(w, r + 1, after, query_intent, strategy)

\* line 1650: the analysis of each query an invocation is given
Analysis == [q \in RunQueries \cup SharedQueries |-> analyze_query(q)]

\* lines 1670-1674: the routes planned for each of them
Plan == [q \in RunQueries \cup SharedQueries |-> PlanFor(q, Analysis[q])]

\* lines 1638-1762: scrape_irdai_comprehensive(q) on a fresh instance, the
\* planned routes answered by the pages of w
RunAlone(q, w) ==
  IF TooShort(q) THEN <<>>
  ELSE IF Analysis[q].intent_type \in {"invalid", "blocked"} THEN <<>>
  ELSE RoutesAlone([r \in 1..Len(Plan[q]) |-> IF r \in DOMAIN w THEN w[r] ELSE FailedPage],
                   1, [all |-> <<>>, high |-> <<>>, processed |-> 0],
                   Analysis[q], determine_search_strategy(Analysis[q]))

----------------------------------------------------------------------------
(* The relevance scorers.  Points are counted in hundredths, so that a    *)
(* normalised score is the number of points below the ceiling.             *)

\* document_type_boosts: the keywords in the model's alphabet (the
\* Devanagari ones match no text over it) and the boost
document_type_boosts ==
  << [keywords |-> {<<"a","n","n","u","l","m","e","n","t">>, <<"c","a","n","c","e","l">>, <<"c","a","n","c","e","l","l","e","d">>, <<"w","i","t","h","d","r","a","w">>, <<"w","i","t","h","d","r","a","w","n">>},
      boost |-> 4000],
     [keywords |-> {<<"e","x","p","r","e","s","s","i","o","n"," ","o","f"," ","i","n","t","e","r","e","s","t">>, <<"e","o","i">>, <<"e","m","p","a","n","e","l","m","e","n","t">>, <<"e","m","p","a","n","e","l">>},
      boost |-> 3500],
     [keywords |-> {<<"a","d","v","e","r","t","i","s","i","n","g">>, <<"a","d","v","e","r","t","i","s","e","m","e","n","t">>, <<"m","a","r","k","e","t","i","n","g">>, <<"p","u","b","l","i","c","i","t","y">>},
      boost |-> 3000],
     [keywords |-> {<<"a","g","e","n","c","i","e","s">>, <<"a","g","e","n","c","y">>, <<"f","i","r","m","s">>, <<"c","o","m","p","a","n","i","e","s">>}, boost |-> 2500],
     [keywords |-> {<<"t","e","n","d","e","r">>, <<"b","i","d">>, <<"p","r","o","p","o","s","a","l">>, <<"p","r","o","c","u","r","e","m","e","n","t">>}, boost |-> 3000],
     [keywords |-> {<<"g","u","i","d","e","l","i","n","e">>, <<"g","u","i","d","e","l","i","n","e","s">>}, boost |-> 3000],
     [keywords |-> {<<"c","i","r","c","u","l","a","r">>}, boost |-> 2500],
     [keywords |-> {<<"n","o","t","i","f","i","c","a","t","i","o","n">>, <<"n","o","t","i","c","e">>, <<"a","n","n","o","u","n","c","e","m","e","n","t">>}, boost |-> 2500],
     [keywords |-> {<<"r","e","m","u","n","e","r","a","t","i","o","n">>}, boost |-> 2000],
     [keywords |-> {<<"d","i","r","e","c","t","o","r","s">>}, boost |-> 1500],
     [keywords |-> {<<"k","e","y"," ","m","a","n","a","g","e","r","i","a","l">>}, boost |-> 1500] >>

generic_penalties ==
  <<<<"m","e","d","i","a"," ","g","a","l","l","e","r","y">>, <<"p","h","o","t","o"," ","g","a","l","l","e","r","y">>, <<"a","b","o","u","t"," ","u","s">>, <<"c","o","n","t","a","c","t">>, <<"h","o","m","e">>>>

RECURSIVE SumSeq(_)
SumSeq(xs) == IF Len(xs) = 0 THEN 0 ELSE xs[1] + SumSeq(Tail(xs))

\* lines 683-688: the exact phrase
ExactPhrasePoints(query_lower, text_lower) ==
  IF Contains(text_lower, query_lower) THEN 15000 ELSE 0

\* lines 690-699: the 4-word phrases of a query of more than 5 words
PhrasePoints(query_lower, text_lower) ==
  LET query_words == Split(query_lower)
  IN  IF Len(query_words) > 5
        THEN 6000 * Cardinality({i \in 0..(Len(query_words) - 4) :
               Contains(text_lower, Join(SubSeq(query_words, i + 1, i + 4)))})
        ELSE 0

\* lines 701-728: the words of more than 3 characters found as words of the text
TitlePoints(query_lower, text_lower) ==
  LET query_title_words == SelectSeq(Split(query_lower), LAMBDA w : Len(w) > 3)
      text_title_words  == SelectSeq(Split(text_lower), LAMBDA w : Len(w) > 3)
      title_match_score ==
        Len(SelectSeq(query_title_words, LAMBDA w : w \in Range(text_title_words)))
      n == Len(query_title_words)
  IN  IF n = 0 THEN 0
      ELSE IF 10 * title_match_score >= 9 * n THEN 10000
      ELSE IF 10 * title_match_score >= 7 * n THEN 7000
      ELSE IF 10 * title_match_score >= 5 * n THEN 4000
      ELSE 0

\* lines 777-786: a document type named by both the query and the text
TypePoints(query_lower, text_lower) ==
  SumSeq([k \in DOMAIN document_type_boosts |->
            IF /\ ContainsAny(query_lower, document_type_boosts[k].keywords)
               /\ ContainsAny(text_lower, document_type_boosts[k].keywords)
              THEN document_type_boosts[k].boost
              ELSE 0])

\* lines 788-796: the years of the query that the text holds too
YearPoints(q, t) ==
  2500 * Len(SelectSeq(FindYears(q), LAMBDA year : year \in Range(FindYears(t))))

\* lines 798-812: the three ratios of the fuzzy-matching library, each an
\* integer from 0 to 100, when the library is installed
FuzzyPoints(f) ==
  IF f.available
    THEN 8 * f.token_set_ratio + 6 * f.partial_ratio + 5 * f.token_sort_ratio
    ELSE 0

\* lines 814-831: the words of more than 2 characters found in the text
WordPoints(query_lower, text_lower) ==
  LET query_words == SelectSeq(Split(query_lower), LAMBDA w : Len(w) > 2)
      matched_words == Len(SelectSeq(query_words, LAMBDA w : Contains(text_lower, w)))
      n == Len(query_words)
  IN  300 * matched_words
        + (IF n = 0 THEN 0
           ELSE IF 10 * matched_words >= 8 * n THEN 1500
           ELSE IF 10 * matched_words >= 6 * n THEN 800
           ELSE 0)

\* lines 833-837: a penalty for each generic term, never below zero
RECURSIVE Penalised(_, _, _)
Penalised(score, text_lower, k) ==
  IF k > Len(generic_penalties) THEN score
  ELSE Penalised(IF Contains(text_lower, generic_penalties[k])
                   THEN (IF score - 500 > 0 THEN score - 500 ELSE 0)
                   ELSE score,
                 text_lower, k + 1)

\* lines 678-837: the points before normalisation
RawScore(t, q, f) ==
  LET query_lower == Strip(Lower(q))
      text_lower  == Strip(Lower(t))
  IN  Penalised(ExactPhrasePoints(query_lower, text_lower)
                  + PhrasePoints(query_lower, text_lower)
                  + TitlePoints(query_lower, text_lower)
                  + TypePoints(query_lower, text_lower)
                  + YearPoints(q, t)
                  + FuzzyPoints(f)
                  + WordPoints(query_lower, text_lower),
                text_lower, 1)

\* the normalisation without the ceiling of line 840
Normalise_NoCeiling(score) == score

\* line 840: min(score / 180.0, 1.0)
Normalise(score) == IF score < ScoreOne THEN score ELSE ScoreOne

calculate_relevance_score(t, q, f) ==
  IF Strip(q) = <<>> \/ Strip(t) = <<>> THEN 0
  ELSE Normalise(RawScore(t, q, f))

\* the text of a document type's name
TypeText ==
  [regulation |-> <<"r","e","g","u","l","a","t","i","o","n">>, circular |-> <<"c","i","r","c","u","l","a","r">>,
   guideline |-> <<"g","u","i","d","e","l","i","n","e">>, notification |-> <<"n","o","t","i","f","i","c","a","t","i","o","n">>,
   act |-> <<"a","c","t">>, order |-> <<"o","r","d","e","r">>, policy |-> <<"p","o","l","i","c","y">>,
   report |-> <<"r","e","p","o","r","t">>]

\* lines 1564-1591: the intent bonus
IntentBonus(t, query_intent) ==
  LET type_bonus ==
        Permille(150)
          * Len(SelectSeq(query_intent.document_types,
                          LAMBDA doc_type : Contains(Lower(t), Lower(TypeText[doc_type]))))
      time_bonus ==
        IF query_intent.time_sensitivity = "latest"
          THEN Permille(100) * Cardinality({year \in recent_years : Contains(t, year)})
        ELSE IF query_intent.target_year # None /\ Contains(t, query_intent.target_year)
          THEN Permille(200)
        ELSE 0
      keyword_count ==
        Cardinality({keyword \in query_intent.keywords : Contains(Lower(t), Lower(keyword))})
      density_bonus ==
        IF Cardinality(query_intent.keywords) > 0
          THEN (keyword_count * Permille(100)) \div Cardinality(query_intent.keywords)
          ELSE 0
  IN  type_bonus + time_bonus + density_bonus

\* enhanced_relevance_scoring: keyword_list is query_intent.keywords in the
\* order list(set(..)) left them in, f the library's ratios for the joined
\* keywords
enhanced_relevance_scoring(t, query_intent, keyword_list, f) ==
  IF query_intent = None \/ Strip(t) = <<>> THEN 0
  ELSE LET base_score  == calculate_relevance_score(t, Join(keyword_list), f)
           final_score == IF base_score + IntentBonus(t, query_intent) < ScoreOne
                            THEN base_score + IntentBonus(t, query_intent)
                            ELSE ScoreOne
       IN  IF final_score > ScoreOne THEN ScoreOne
           ELSE IF final_score < 0 THEN 0
           ELSE final_score

----------------------------------------------------------------------------
(* The score a detail page is given: by the detail extractor of the query
   text, by the detail extractor of the intent, by the controller *)

\* f"{title} {content}"
FullText(title, content) == title \o <<" ">> \o content

\* re.sub(r'[^\w\s]', ' ', s.lower()).strip()
CleanPunctuation(s) ==
  Strip([i \in 1..Len(s) |->
           IF LowerChar(s[i]) \in WordChars \cup Whitespace
             THEN LowerChar(s[i]) ELSE " "])

\* query_clean in title_clean or title_clean in query_clean
ExactTitleMatch(q, title) ==
  \/ Contains(CleanPunctuation(title), CleanPunctuation(q))
  \/ Contains(CleanPunctuation(q), CleanPunctuation(title))

\* the score of extract_irdai_document_detail_page
detail_page_score(title, content, q, f) ==
  LET relevance_score == calculate_relevance_score(FullText(title, content), q, f)
  IN  IF q # <<>> /\ title # <<>> /\ ExactTitleMatch(q, title)
           /\ relevance_score < Permille(950)
        THEN Permille(950)
        ELSE relevance_score

\* apply_time_boost
apply_time_boost(score, t) ==
  LET boost == Permille(100) * Cardinality({y \in recent_years : Contains(t, y)})
  IN  IF score + boost < ScoreOne THEN score + boost ELSE ScoreOne

\* apply_year_boost
apply_year_boost(score, t, target_year) ==
  IF Contains(t, target_year)
    THEN (IF score + Permille(200) < ScoreOne THEN score + Permille(200) ELSE ScoreOne)
    ELSE score

\* the score of extract_irdai_document_detail_page_enhanced
detail_page_score_enhanced(title, content, query_intent, keyword_list, f) ==
  LET full_text       == FullText(title, content)
      relevance_score == enhanced_relevance_scoring(full_text, query_intent, keyword_list, f)
  IN  IF query_intent.time_sensitivity = "latest"
        THEN apply_time_boost(relevance_score, full_text)
        ELSE IF query_intent.target_year # None
          THEN apply_year_boost(relevance_score, full_text, query_intent.target_year)
          ELSE relevance_score

\* the score run() gives the candidate in place of the extractor's
controller_score(title, content, query_intent, keyword_list, f) ==
  enhanced_relevance_scoring(FullText(title, content), query_intent, keyword_list, f)

----------------------------------------------------------------------------
(* The scorers on their own: one text, one query, one intent *)

\* what the library is taken to contribute: nothing when it is not
\* installed, else ratios at the ends of their range or between them
Fuzzies ==
  {[available |-> FALSE, token_set_ratio |-> 0, partial_ratio |-> 0,
    token_sort_ratio |-> 0],
   [available |-> TRUE, token_set_ratio |-> 0, partial_ratio |-> 0,
    token_sort_ratio |-> 0],
   [available |-> TRUE, token_set_ratio |-> 100, partial_ratio |-> 57,
    token_sort_ratio |-> 33],
   [available |-> TRUE, token_set_ratio |-> 100, partial_ratio |-> 100,
    token_sort_ratio |-> 100]}

ScoreQueries ==
  {<<>>, <<" ">>, <<"g","u","i","d","e","l","i","n","e","s"," ","o","n"," ","r","e","m","u","n","e","r","a","t","i","o","n">>, <<"L","a","t","e","s","t"," ","c","i","r","c","u","l","a","r"," ","2","0","2","5">>,
   <<"a","n","n","u","l","m","e","n","t"," ","o","f"," ","t","e","n","d","e","r"," ","n","o","t","i","c","e"," ","f","o","r"," ","e","m","p","a","n","e","l","m","e","n","t"," ","o","f"," ","a","d","v","e","r","t","i","s","i","n","g"," ","a","g","e","n","c","i","e","s"," ","2","0","2","3">>,
   <<"h","o","m","e"," ","c","o","n","t","a","c","t">>, <<"s","t","a","t","u","s"," ","o","f"," ","c","l","a","i","m","s">>}

\* the queries whose analysis the intent-based scorer is given
IntentQueries ==
  {<<"g","u","i","d","e","l","i","n","e","s"," ","o","n"," ","r","e","m","u","n","e","r","a","t","i","o","n">>, <<"l","a","t","e","s","t"," ","c","i","r","c","u","l","a","r"," ","2","0","2","5">>, <<"t","h","e"," ","a","n","d"," ","o","f">>,
   <<"a","c","t"," ","2","0","2","3">>, <<"x","x">>, <<"h","a","c","k"," ","i","t">>, <<"s","t","a","t","u","s"," ","o","f"," ","c","l","a","i","m","s">>}

Texts ==
  {<<>>, <<" ","\t">>, <<"C","o","n","t","a","c","t">>, <<"c","i","r","c","u","l","a","r">>,
   <<"G","u","i","d","e","l","i","n","e","s"," ","o","n"," ","R","e","m","u","n","e","r","a","t","i","o","n"," ","o","f"," ","D","i","r","e","c","t","o","r","s"," ","a","n","d"," ","K","e","y"," ","M","a","n","a","g","e","r","i","a","l"," ","P","e","r","s","o","n","s">>,
   <<"r","e","m","u","n","e","r","a","t","i","o","n"," ","g","u","i","d","e","l","i","n","e","s"," ","2","0","2","5"," ","-"," ","h","o","m","e"," ","-"," ","c","o","n","t","a","c","t"," ","-"," ","a","b","o","u","t"," ","u","s"," ","-"," ","m","e","d","i","a"," ","g","a","l","l","e","r","y"," ","-"," ","p","h","o","t","o"," ","g","a","l","l","e","r","y">>,
   <<"M","a","s","t","e","r"," ","C","i","r","c","u","l","a","r"," ","2","0","2","5"," ","l","a","t","e","s","t"," ","c","i","r","c","u","l","a","r"," ","2","0","2","5">>,
   <<"I","n","s","u","r","a","n","c","e"," ","A","c","t"," ","2","0","2","3"," ","r","e","g","u","l","a","t","i","o","n">>,
   <<"S","t","a","t","u","s"," ","o","f"," ","C","l","a","i","m","s"," ","-"," ","a"," ","s","u","m","m","a","r","y"," ","f","o","r"," ","a","l","l"," ","o","f"," ","u","s">>,
   <<"A","n","n","u","l","m","e","n","t"," ","o","f"," ","t","e","n","d","e","r"," ","n","o","t","i","c","e"," ","f","o","r"," ","e","m","p","a","n","e","l","m","e","n","t"," ","o","f"," ","a","d","v","e","r","t","i","s","i","n","g"," ","a","g","e","n","c","i","e","s"," ","2","0","2","3">>}

\* the orders in which a list can hold the elements of S
Orderings(S) ==
  {ks \in [1..Cardinality(S) -> S] : Range(ks) = S}

InitScore ==
  /\ query \in ScoreQueries
  /\ intent \in {None} \cup {analyze_query(q) : q \in IntentQueries}
  /\ text \in Texts
  /\ fuzzy = [available |-> FALSE]
  /\ spc = "start"
  /\ relevance = 0
  /\ enhanced = 0
  /\ detail_content = <<>>
  /\ plain_detail = 0
  /\ intent_detail = 0
  /\ rescored = 0
  /\ IdleAnalyze
  /\ IdleRun
  /\ IdleExtract
  /\ IdleFilter

\* calculate_relevance_score(text, query)
CalculateRelevance ==
  /\ spc = "start"
  /\ fuzzy' \in Fuzzies
  /\ relevance' = calculate_relevance_score(text, query, fuzzy')
  /\ spc' = "scored"
  /\ UNCHANGED <<qvars, avars, rvars, ivars, xvars, fvars, text, enhanced, detail_content,
                 plain_detail, intent_detail, rescored>>

\* enhanced_relevance_scoring(text, intent)
EnhancedScoring ==
  /\ spc = "scored"
  /\ \E f \in Fuzzies :
       \E keyword_list \in (IF intent = None THEN {<<>>} ELSE Orderings(intent.keywords)) :
         enhanced' = enhanced_relevance_scoring(text, intent, keyword_list, f)
  /\ spc' = "done"
  /\ UNCHANGED <<qvars, avars, rvars, ivars, xvars, fvars, text, fuzzy, relevance, detail_content,
                 plain_detail, intent_detail, rescored>>

\* the words a title candidate must not hold
title_skip_words ==
  {<<"f","u","n","c","t","i","o","n"," ","o","f"," ","d","e","p","a","r","t","m","e","n","t">>, <<"i","r","d","a","i"," ","a","c","c","o","u","n","t","s">>, <<"n","a","v","i","g","a","t","i","o","n">>, <<"b","r","e","a","d","c","r","u","m","b">>,
   <<"h","o","m","e">>, <<"b","a","c","k"," ","t","o">>, <<"c","l","i","c","k"," ","h","e","r","e">>}

\* a heading both detail extractors take as the title of the page
UsableTitle(t) ==
  /\ Len(Strip(t)) > 30
  /\ Len(Strip(t)) < 1000
  /\ ~ContainsAny(Lower(t), title_skip_words)

\* what a detail page holds under its heading
DetailContents ==
  {<<"T","h","i","s"," ","p","a","g","e"," ","s","h","o","w","s"," ","t","h","e"," ","n","o","t","e","s"," ","f","i","l","e","d"," ","b","y"," ","e","n","t","i","t","i","e","s"," ","l","a","s","t"," ","w","e","e","k",".">>}

\* a detail page whose heading is the text, read by both detail extractors
\* and scored again by run()
DetailPage ==
  /\ spc = "done"
  /\ intent # None
  /\ intent = analyze_query(query)
  /\ intent.intent_type \notin {"invalid", "blocked"}
  /\ UsableTitle(text)
  /\ detail_content' \in DetailContents
  /\ plain_detail' = detail_page_score(Strip(text), detail_content', query, fuzzy)
  /\ \E keyword_list \in Orderings(intent.keywords) :
       /\ intent_detail' = detail_page_score_enhanced(Strip(text), detail_content', intent,
                                                      keyword_list, fuzzy)
       /\ rescored' = controller_score(Strip(text), detail_content', intent,
                                       keyword_list, fuzzy)
  /\ spc' = "detailed"
  /\ UNCHANGED <<qvars, avars, rvars, ivars, xvars, fvars, text, fuzzy, relevance, enhanced>>

NextScore == CalculateRelevance \/ EnhancedScoring \/ DetailPage

SpecScore == InitScore /\ [][NextScore]_vars

----------------------------------------------------------------------------
(* extract_irdai_documents_enhanced, link by link *)

\* number of document-detail links on the page, at most
MaxAnchors == 3

\* the documents the page links to
AnchorIds == {1, 2, 3, 5, WeakTitleId}

\* a link: the documentId of its href, and whether it stands in a table
\* row that the table pass reads (not the header, two cells or more)
Anchors == [id : AnchorIds, in_table : BOOLEAN]

Pages == SeqsUpTo(Anchors, MaxAnchors)

\* the links the table pass meets, in its order
TableLinks == SelectSeq(anchors, LAMBDA a : a.in_table)

\* what fetching the detail page can come to: a page that exists can
\* still fail to load
DetailOutcomes(id) == IF Corpus[id].detail_ok THEN {TRUE, FALSE} ELSE {FALSE}

\* lines 1117-1153: the title and score of a table link, given whether the
\* detail page was extracted
TableChoice(id, detail_data) ==
  LET d == Corpus[id]
      has_best == d.has_table_title /\ d.table_score > 0
      best_title == IF has_best THEN "table" ELSE ""
      best_score == IF has_best THEN d.table_score ELSE 0
  IN  IF detail_data
        THEN IF \/ d.detail_score > best_score
                \/ best_score < Permille(300)
                \/ best_title = ""
               THEN [title |-> "detail", score |-> d.detail_score]
               ELSE [title |-> best_title,
                     score |-> IF best_score > d.detail_score
                                 THEN best_score ELSE d.detail_score]
        ELSE [title |-> best_title, score |-> best_score]

\* lines 1159-1181 and 1213-1225: the dictionary appended for a candidate
Extracted(id, title, score, pattern) ==
  [document_id |-> id, title |-> title, relevance_score |-> score,
   extraction_pattern |-> pattern]

\* the record of a documentId put to a quality floor
Attempt(id, passed, pass, fetched) ==
  [id |-> id, passed |-> passed, pass |-> pass, fetched |-> fetched]

ExtractQueries == {<<"l","a","t","e","s","t"," ","c","i","r","c","u","l","a","r">>, <<"g","u","i","d","e","l","i","n","e","s"," ","o","n"," ","r","e","m","u","n","e","r","a","t","i","o","n">>}

InitExtract ==
  /\ query \in ExtractQueries
  /\ intent = analyze_query(query)
  /\ anchors \in Pages
  /\ xpc = "table"
  /\ link_idx = 1
  /\ processed_doc_ids = {}
  /\ documents = <<>>
  /\ attempts = <<>>
  /\ intent_documents = <<>>
  /\ IdleAnalyze
  /\ IdleRun
  /\ IdleScore
  /\ IdleFilter

\* lines 1111-1114: a table link to a documentId met before is skipped
TableLinkSeen ==
  /\ xpc = "table"
  /\ link_idx <= Len(TableLinks)
  /\ Seen(TableLinks[link_idx].id, processed_doc_ids)
  /\ link_idx' = link_idx + 1
  /\ UNCHANGED <<qvars, avars, rvars, ivars, svars, fvars, anchors, xpc, processed_doc_ids,
                 documents, attempts, intent_documents>>

\* lines 1115-1185: a table link to a new documentId
TableLinkNew ==
  /\ xpc = "table"
  /\ link_idx <= Len(TableLinks)
  /\ ~Seen(TableLinks[link_idx].id, processed_doc_ids)
  /\ \E detail_data \in DetailOutcomes(TableLinks[link_idx].id) :
       LET id     == TableLinks[link_idx].id
           choice == TableChoice(id, detail_data)
           passed == choice.score >= Permille(100) /\ choice.title # ""
       IN  /\ processed_doc_ids' = processed_doc_ids \cup {id}
           /\ documents' =
                IF passed
                  THEN Append(documents,
                              Extracted(id, choice.title, choice.score,
                                        "enhanced_table_plus_detail"))
                  ELSE documents
           /\ attempts' = Append(attempts, Attempt(id, passed, "table", detail_data))
  /\ link_idx' = link_idx + 1
  /\ UNCHANGED <<qvars, avars, rvars, ivars, svars, fvars, anchors, xpc, intent_documents>>

\* the table pass is over: on to every link of the page
TablesDone ==
  /\ xpc = "table"
  /\ link_idx > Len(TableLinks)
  /\ xpc' = "direct"
  /\ link_idx' = 1
  /\ UNCHANGED <<qvars, avars, rvars, ivars, svars, fvars, anchors, processed_doc_ids,
                 documents, attempts, intent_documents>>

\* lines 1201-1202: a link to a documentId met before is skipped
DirectLinkSeen ==
  /\ xpc = "direct"
  /\ link_idx <= Len(anchors)
  /\ Seen(anchors[link_idx].id, processed_doc_ids)
  /\ link_idx' = link_idx + 1
  /\ UNCHANGED <<qvars, avars, rvars, ivars, svars, fvars, anchors, xpc, processed_doc_ids,
                 documents, attempts, intent_documents>>

\* lines 1204-1225: a link to a documentId not met before; the documentId
\* joins processed_doc_ids only if its candidate is appended
DirectLinkNew ==
  /\ xpc = "direct"
  /\ link_idx <= Len(anchors)
  /\ ~Seen(anchors[link_idx].id, processed_doc_ids)
  /\ \E detail_data \in DetailOutcomes(anchors[link_idx].id) :
       LET id     == anchors[link_idx].id
           passed == detail_data /\ Corpus[id].detail_score >= Permille(150)
       IN  /\ processed_doc_ids' =
                IF passed THEN processed_doc_ids \cup {id} ELSE processed_doc_ids
           /\ documents' =
                IF passed
                  THEN Append(documents,
                              Extracted(id, "detail", Corpus[id].detail_score,
                                        "direct_link_detail"))
                  ELSE documents
           /\ attempts' = Append(attempts, Attempt(id, passed, "direct", detail_data))
  /\ link_idx' = link_idx + 1
  /\ UNCHANGED <<qvars, avars, rvars, ivars, svars, fvars, anchors, xpc, intent_documents>>

\* lines 1227-1240: the candidates are sorted and returned
SortDocuments ==
  /\ xpc = "direct"
  /\ link_idx > Len(anchors)
  /\ documents' = SortDesc(documents)
  /\ xpc' = "sorted"
  /\ UNCHANGED <<qvars, avars, rvars, ivars, svars, fvars, anchors, link_idx,
                 processed_doc_ids, attempts, intent_documents>>

\* extract_irdai_documents_enhanced_with_intent on the same page: it reads
\* the table links only
ExtractWithIntent ==
  /\ xpc = "sorted"
  /\ intent_documents' =
       extract_irdai_documents_enhanced_with_intent(
         [k \in DOMAIN TableLinks |-> TableLinks[k].id], intent)
  /\ xpc' = "done"
  /\ UNCHANGED <<qvars, avars, rvars, ivars, svars, fvars, anchors, link_idx,
                 processed_doc_ids, documents, attempts>>

NextExtract ==
  \/ TableLinkSeen
  \/ TableLinkNew
  \/ TablesDone
  \/ DirectLinkSeen
  \/ DirectLinkNew
  \/ SortDocuments
  \/ ExtractWithIntent

SpecExtract == InitExtract /\ [][NextExtract]_vars

----------------------------------------------------------------------------
(* apply_final_filtering on its own: one list of documents, one strategy *)

\* the longest list handed to the function
MaxFiltered == 3

\* what the function reads of a document: the document types its content
\* names and whether its content names the current year or the one before
FilterKinds ==
  [content_types : {{}, {"regulation"}, {"act"}}, content_recent_year : BOOLEAN]

\* the strategies determine_search_strategy builds
Strategies ==
  {determine_search_strategy([intent_type |-> t, urgency_level |-> u]) :
     t \in {"specific_document", "latest_updates", "regulatory_guidance",
            "general_search"},
     u \in {"medium", "critical"}}

InitFilter ==
  /\ fpc = "start"
  /\ filter_documents \in SeqsUpTo(FilterKinds, MaxFiltered)
  /\ filter_strategy \in Strategies
  /\ filtered_docs = <<>>
  /\ query = <<>>
  /\ intent = NoIntent
  /\ IdleAnalyze
  /\ IdleRun
  /\ IdleScore
  /\ IdleExtract

\* apply_final_filtering(documents, strategy, query_intent)
ApplyFinalFiltering ==
  /\ fpc = "start"
  /\ filtered_docs' = apply_final_filtering(filter_documents, filter_strategy, intent)
  /\ fpc' = "done"
  /\ UNCHANGED <<qvars, avars, rvars, ivars, svars, xvars, filter_documents, filter_strategy>>

NextFilter == ApplyFinalFiltering

SpecFilter == InitFilter /\ [][NextFilter]_vars

----------------------------------------------------------------------------
(* History read off the events *)

\* the routes whose page was requested
FetchedRoutes == {events[k].route : k \in {j \in DOMAIN events : events[j].kind = "fetch"}}

\* the rescorings recorded so far
ScoredEvents == {k \in DOMAIN events : events[k].kind = "scored"}

AcceptedEvents == {k \in ScoredEvents : events[k].accepted}

\* the invocation returned through the hard early stop
ReturnedPerfect ==
  /\ pc = "done"
  /\ Len(result) = 1
  /\ result[1].is_perfect_match

\* the query passed both guard rails
Searching == pc \notin {"idle", "intake"} /\ intent.intent_type \notin {"none", "invalid", "blocked"}

----------------------------------------------------------------------------
(* Claims *)

\* C1, as stated: for every valid query, if any candidate found on any
\* planned route has a score at or above the early-stop threshold, the
\* invocation returns the single-element list holding exactly that candidate.
C1_AnyPerfectCandidateIsReturned ==
  (pc = "done" /\ Searching) =>
    \A r \in 1..Len(priority_urls) :
      web[r].ok =>
        \A d \in Range(extract_irdai_documents_enhanced_with_intent(web[r].rows, intent)) :
          Rescore(d) >= search_strategy.early_stop_threshold =>
            result = <<create_enhanced_document(d, Rescore(d), intent, TRUE)>>

\* C1, amended: as soon as the controller has rescored a candidate that
\* passed quality validation at or above the early-stop threshold, the
\* invocation has returned the single-element list holding exactly that
\* candidate, flagged as the perfect match, whatever was accepted before.
C1_ReachedPerfectCandidateIsReturned ==
  \A k \in ScoredEvents :
    events[k].score >= search_strategy.early_stop_threshold =>
      /\ pc = "done"
      /\ k = Len(events)
      /\ Len(result) = 1
      /\ result[1].document_id = events[k].id
      /\ result[1].relevance_score = events[k].score
      /\ result[1].is_perfect_match

\* C1, witness: a perfect match returned after other candidates were accepted
C1_Witness ==
  /\ ReturnedPerfect
  /\ AcceptedEvents # {}
  /\ events[Len(events)].kind = "scored"
  /\ events[Len(events)].score >= search_strategy.early_stop_threshold
  /\ events[Len(events)].route > 1

\* C2: a query that is empty or shorter than 3 characters after trimming is
\* analysed as invalid, and the invocation returns the empty list without
\* fetching any page.
C2_ShortQueryRejected ==
  Len(Strip(query)) < 3 =>
    /\ analyze_query(query).intent_type = "invalid"
    /\ pc \in {"intake", "done"}
    /\ result = <<>>
    /\ events = <<>>

\* C2, witness: a blank-padded two-character query has been turned away
C2_Witness ==
  /\ pc = "done"
  /\ Len(query) >= 3
  /\ Len(Strip(query)) = 2
  /\ result = <<>>

\* the denylist terms the claim names
NamedDenylist == {<<"h","a","c","k">>, <<"d","e","l","e","t","e">>, <<"e","x","p","l","o","i","t">>, <<"i","n","j","e","c","t">>}

\* C3: a query of 3 or more characters that contains a denylist term is
\* analysed as blocked, and the invocation returns the empty list without
\* fetching any page.
C3_HarmfulQueryBlocked ==
  (Len(Strip(query)) >= 3 /\ ContainsAny(Lower(query), NamedDenylist)) =>
    /\ analyze_query(query).intent_type = "blocked"
    /\ pc \in {"intake", "done"}
    /\ result = <<>>
    /\ events = <<>>

\* C3, witness: a query with a capitalised denylist term has been blocked
C3_Witness ==
  /\ pc = "done"
  /\ Contains(query, <<"H","a","c","k">>)
  /\ Len(query) > 4
  /\ intent.intent_type = "blocked"
  /\ result = <<>>

\* C4, as stated: the returned list never holds two documents with the same
\* identifier.
C4_NoDuplicateIdentifier ==
  pc = "done" =>
    \A i, j \in 1..Len(result) :
      i # j => result[i].document_id # result[j].document_id

\* C4, the failing run: a document listed on two routes is returned twice
C4_Duplicated ==
  /\ pc = "done"
  /\ \E i, j \in 1..Len(result) :
       i < j /\ result[i].document_id = result[j].document_id

\* the four intent types
IntentTypes ==
  {"specific_document", "latest_updates", "regulatory_guidance", "general_search"}

\* C7: a query of 3 or more characters that matches no denylist term is
\* given one of the four intent types and a confidence between 0 and 1.
C7_IntentTypeAndConfidenceInRange ==
  (apc # "start" /\ Len(Strip(query)) >= 3
     /\ ~ContainsAny(Lower(query), harmful_patterns)) =>
    /\ intent.intent_type \in IntentTypes
    /\ intent.confidence_score >= 0
    /\ intent.confidence_score <= 10

\* C7, witness: an analysed query whose confidence terms add up to more than 1
C7_Witness ==
  /\ apc = "done"
  /\ intent.intent_type \in IntentTypes
  /\ ConfidenceSum(Lower(query), intent.keywords, intent.document_types) > 10
  /\ intent.confidence_score = 10

\* C8, as stated: the enhanced planner returns at most 4 routes and the
\* intent-free planner at most 3, for every query.
C8_RouteListsBounded ==
  apc = "done" =>
    /\ Len(plain_routes) <= 3
    /\ Len(enhanced_routes) <= 4

\* C8, the failing call: the intent-free planner returns 4 routes for a
\* query with latest/recent vocabulary
C8_LatestOverrideReturnsFour ==
  /\ apc = "done"
  /\ Contains(Lower(query), <<"l","a","t","e","s","t">>)
  /\ Len(plain_routes) = 4

\* the budget was spent before route r was reached
BudgetSpentBefore(r) ==
  Cardinality({k \in AcceptedEvents : events[k].route < r})
    >= search_strategy.max_documents

\* the soft early stop was due at the end of a route before r
SoftStoppedBefore(r) ==
  /\ intent.urgency_level \in {"critical", "high"}
  /\ Cardinality({k \in AcceptedEvents :
                    events[k].route < r /\ events[k].score >= Permille(800)}) >= 3

\* final filtering had a reason to drop the document
DroppedByFilter(doc) ==
  /\ result # <<>>
  /\ \/ /\ search_strategy.time_filter = "recent"
        /\ ~doc.content_recent_year
        /\ \A d \in Range(result) : d.content_recent_year
     \/ /\ Len(search_strategy.document_filters) > 0
        /\ doc.content_types \cap Range(search_strategy.document_filters) = {}
        /\ \A d \in Range(result) :
             d.content_types \cap Range(search_strategy.document_filters) # {}

\* the failed fetches recorded so far
FailedFetches == {k \in DOMAIN events : events[k].kind = "fetch" /\ ~events[k].ok}

C10_ResultSortedDescending ==
  pc = "done" =>
    \A i \in 1..(Len(result) - 1) :
      result[i].relevance_score >= result[i + 1].relevance_score

\* C10, witness: two documents accepted in ascending order of score are
\* returned in descending order
C10_Witness ==
  /\ pc = "done"
  /\ Len(result) >= 2
  /\ result[1].relevance_score > result[2].relevance_score
  /\ \E a, b \in AcceptedEvents :
       /\ a < b
       /\ events[a].score < events[b].score
       /\ events[a].id = result[2].document_id
       /\ events[b].id = result[1].document_id

\* C6: both relevance scores lie between 0 and 1, and are exactly 0 when
\* the text is empty or the query is empty (for the intent-based scorer:
\* when there is no intent, or the intent holds no keyword to search for).
C6_ScoresInUnitRange ==
  /\ spc \in {"scored", "done"} =>
       /\ relevance >= 0
       /\ relevance <= ScoreOne
       /\ (Strip(text) = <<>> \/ Strip(query) = <<>>) => relevance = 0
  /\ spc = "done" =>
       /\ enhanced >= 0
       /\ enhanced <= ScoreOne
       /\ (Strip(text) = <<>> \/ intent = None \/ intent.keywords = {}) =>
            enhanced = 0

\* C6, witness: a text that earns more points than the ceiling, scored 1
\* by both scorers
C6_Witness ==
  /\ spc = "done"
  /\ RawScore(text, query, fuzzy) > ScoreOne
  /\ relevance = ScoreOne
  /\ enhanced = ScoreOne

\* the candidates of a list that carry the documentId
WithId(docs, id) == {i \in DOMAIN docs : docs[i].document_id = id}

\* the documentIds the page links to twice or more
LinkedTwice ==
  {id \in AnchorIds : Cardinality({k \in DOMAIN anchors : anchors[k].id = id}) >= 2}

\* C5: one extraction call over a page that links to a documentId twice or
\* more yields at most one candidate with it, and exactly one if the
\* document passed the quality floor when the call put it to it.
C5_OneCandidatePerIdentifier ==
  \A id \in LinkedTwice :
    /\ Cardinality(WithId(documents, id)) <= 1
    /\ xpc \in {"sorted", "done"} =>
         (Cardinality(WithId(documents, id)) = 1
            <=> \E k \in DOMAIN attempts : attempts[k].id = id /\ attempts[k].passed)
    /\ xpc = "done" =>
         /\ Cardinality(WithId(intent_documents, id)) <= 1
         /\ (Cardinality(WithId(intent_documents, id)) = 1
               <=> /\ \E k \in DOMAIN TableLinks : TableLinks[k].id = id
                   /\ ExtractRow(id, intent) # <<>>)

\* C5, witness: a document linked from a table row and once more, found
\* once by either extractor
C5_Witness ==
  /\ xpc = "done"
  /\ \E id \in LinkedTwice :
       /\ \E j, k \in DOMAIN anchors :
            /\ anchors[j].id = id /\ anchors[j].in_table
            /\ anchors[k].id = id /\ ~anchors[k].in_table
       /\ Cardinality(WithId(documents, id)) = 1
       /\ Cardinality(WithId(intent_documents, id)) = 1

\* C11: the processed-document counter never exceeds the strategy's
\* max_documents, no route is fetched once the counter has reached it, and
\* the returned list has at most max_documents elements.
C11_DocumentBudget ==
  Searching =>
    /\ documents_processed <= search_strategy.max_documents
    /\ \A k \in DOMAIN events :
         events[k].kind = "fetch" =>
           Cardinality({a \in AcceptedEvents : a < k}) < search_strategy.max_documents
    /\ pc = "done" => Len(result) <= search_strategy.max_documents

\* C11, witness: the budget was spent in the middle of a listing, and a
\* route was left unfetched for it
C11_Witness ==
  /\ pc = "done"
  /\ Searching
  /\ ~ReturnedPerfect
  /\ documents_processed = search_strategy.max_documents
  /\ doc_idx <= Len(doc_data)
  /\ \E r \in 1..Len(priority_urls) :
       r \notin FetchedRoutes /\ BudgetSpentBefore(r) /\ ~SoftStoppedBefore(r)

\* C12, as stated: the outcome of a valid query is never the outcome that a
\* blocked or invalid query is given, the empty list.
C12_RejectionDistinguishable ==
  (pc = "done" /\ Searching) => result # <<>>

\* C13: every returned document has a non-empty title, an http(s) URL,
\* non-empty content and a score between 0 and 1.
C13_ReturnedDocumentsWellFormed ==
  pc = "done" =>
    \A i \in DOMAIN result :
      /\ result[i].title # ""
      /\ result[i].url_http
      /\ result[i].content.envelope # "" \/ result[i].content.body_len > 0
      /\ result[i].relevance_score >= 0
      /\ result[i].relevance_score <= ScoreOne

\* C13, witness: documents are returned by a run that turned away a
\* candidate at quality validation and rescored another to 1
C13_Witness ==
  /\ pc = "done"
  /\ \E k \in DOMAIN events : events[k].kind = "invalid"
  /\ \E i \in DOMAIN result : result[i].relevance_score = ScoreOne

\* C14: a detail page whose title, punctuation apart, holds the query or is
\* held by it has a score of at least 0.95, from the extractor of the query
\* text, from the extractor of the intent and from the controller
C14_ExactTitleScoresHigh ==
  (spc = "detailed" /\ ExactTitleMatch(query, Strip(text))) =>
    /\ plain_detail >= Permille(950)
    /\ intent_detail >= Permille(950)
    /\ rescored >= Permille(950)

\* C16: the list either extractor returns is in descending order of
\* relevance score: no candidate is followed by one with a higher score
C16_ExtractorOutputSorted ==
  xpc = "done" =>
    /\ \A i \in 1..(Len(documents) - 1) :
         documents[i].relevance_score >= documents[i + 1].relevance_score
    /\ \A i \in 1..(Len(intent_documents) - 1) :
         intent_documents[i].relevance_score >= intent_documents[i + 1].relevance_score

\* C17: the keywords of an analysed query hold every fixed phrase the query
\* contains as one element, and hold no stop-word and no token of two
\* characters or fewer (the keywords are a set: no element occurs twice)
C17_KeywordsKeepPhrases ==
  (apc # "start" /\ intent.intent_type \notin {"invalid", "blocked"}) =>
    /\ \A phrase \in important_phrases :
         Contains(Strip(Lower(query)), phrase) => phrase \in intent.keywords
    /\ \A k \in intent.keywords : k \notin stop_words /\ Len(k) > 2

\* C18: when the controller is at a validated candidate whose rescored value
\* is at or above the early-stop threshold, its next step records that score
\* and returns the list holding only that candidate as the perfect match;
\* once such a score is recorded the invocation takes no further step: no
\* fetch, no validation, no rescoring, no acceptance
C18_HardShortCircuit ==
  [][/\ (/\ AtCandidate
         /\ validate_document_quality(Candidate)
         /\ Rescore(Candidate) >= search_strategy.early_stop_threshold)
        => /\ pc' = "done"
           /\ events' = Append(events, Scored(FALSE))
           /\ result' = <<create_enhanced_document(Candidate, Rescore(Candidate),
                                                   intent, TRUE)>>
     /\ ~(\E k \in ScoredEvents :
            events[k].score >= search_strategy.early_stop_threshold)]_vars

\* C18, witness: the perfect match is returned while the page holds further
\* candidates and a later planned route would load
C18_Witness ==
  /\ ReturnedPerfect
  /\ events[Len(events)].kind = "scored"
  /\ events[Len(events)].score >= search_strategy.early_stop_threshold
  /\ doc_idx < Len(doc_data)
  /\ \E r \in (route_idx + 1)..Len(priority_urls) : web[r].ok

\* the minimum the specification gives for the intent of the invocation
StatedMinimum ==
  CASE intent.intent_type = "specific_document"   -> Permille(20)
    [] intent.intent_type = "latest_updates"      -> Permille(50)
    [] intent.intent_type = "regulatory_guidance" -> Permille(30)
    [] OTHER                                      -> Permille(50)

\* C19: a step of the controller at a validated candidate whose rescored
\* value is below the early-stop threshold appends the candidate to the
\* page's documents and adds one to the counter when the value is at or
\* above the minimum stated for the intent, and otherwise leaves the accepted
\* documents, the counter and the result as they were
C19_AcceptanceRule ==
  [][(/\ AtCandidate
      /\ validate_document_quality(Candidate)
      /\ Rescore(Candidate) < search_strategy.early_stop_threshold)
       => IF Rescore(Candidate) >= StatedMinimum
            THEN /\ page_documents' =
                      Append(page_documents,
                             create_enhanced_document(Candidate, Rescore(Candidate),
                                                      intent, FALSE))
                 /\ documents_processed' = documents_processed + 1
                 /\ events' = Append(events, Scored(TRUE))
                 /\ UNCHANGED <<all_documents, result>>
            ELSE /\ events' = Append(events, Scored(FALSE))
                 /\ UNCHANGED <<page_documents, all_documents, high_relevance_documents,
                                documents_processed, result>>]_vars

\* C19, witness: the invocation accepted a candidate whose rescored value is
\* the minimum of its intent and lies below the standard 0.05
C19_Witness ==
  /\ Searching
  /\ \E k \in AcceptedEvents :
       /\ events[k].score = StatedMinimum
       /\ events[k].score < Permille(50)
  /\ documents_processed = Cardinality(AcceptedEvents)
  /\ documents_processed > 0

\* the accepted candidates with a score of 0.8 or more recorded before event k
HighAcceptedBefore(k) ==
  {a \in AcceptedEvents : a < k /\ events[a].score >= Permille(800)}

\* C20: under high or critical urgency no route is fetched once three
\* accepted candidates have a score of 0.8 or more, and the invocation that
\* stops for this reason still returns what it accepted, post-processed;
\* under medium or low urgency every planned route is fetched unless the
\* document budget is spent or a perfect match is returned
C20_SoftEarlyStop ==
  Searching =>
    /\ intent.urgency_level \in {"critical", "high"} =>
         /\ \A k \in DOMAIN events :
              events[k].kind = "fetch" => Cardinality(HighAcceptedBefore(k)) < 3
         /\ (pc = "done" /\ ~ReturnedPerfect) =>
              /\ \A a \in AcceptedEvents :
                   \E i \in DOMAIN all_documents :
                     /\ all_documents[i].document_id = events[a].id
                     /\ all_documents[i].relevance_score = events[a].score
                     /\ \/ all_documents[i] \in Range(result)
                        \/ DroppedByFilter(all_documents[i])
              /\ result = apply_final_filtering(SortDesc(all_documents),
                                                search_strategy, intent)
    /\ (intent.urgency_level \in {"medium", "low"} /\ pc = "done" /\ ~ReturnedPerfect) =>
         \A r \in 1..Len(priority_urls) :
           r \in FetchedRoutes \/ BudgetSpentBefore(r)

\* C20, witness: an invocation of high or critical urgency accepted three
\* candidates with a score of 0.8 or more, left a later route unfetched with
\* budget to spare, and returned the three
C20_Witness ==
  /\ pc = "done"
  /\ Searching
  /\ intent.urgency_level \in {"critical", "high"}
  /\ Cardinality(HighAcceptedBefore(Len(events) + 1)) >= 3
  /\ \E r \in 1..Len(priority_urls) : r \notin FetchedRoutes /\ ~BudgetSpentBefore(r)
  /\ Len(result) >= 3

\* C15: an invocation on an instance that a second invocation uses before
\* it, after it or in between its steps returns the list it returns alone
\* on a fresh instance for the same query and the same pages
C15_QueryIsolation ==
  pc = "done" => result = RunAlone(query, web)

\* C15, witness: documents are returned by an invocation that began between
\* the second invocation's clearing of the state and its last write, the
\* instance now holding the second invocation's query
C15_Witness ==
  /\ pc = "done"
  /\ Len(result) >= 2
  /\ other_pc = "done"
  /\ query_state.current_query = other_query
  /\ query_state.previous_query = <<>>
  /\ query_state.query_intent = OtherIntent[other_query]

\* the documents of the list whose content names a required type
MatchingRequired(docs) ==
  SelectSeq(docs, LAMBDA doc :
    doc.content_types \cap {"regulation", "circular", "guideline"} # {})

\* C21: under a strategy with required document types the returned list is
\* the documents that match one of them when one does and the whole list
\* when none does; a list that is not empty is never turned into an empty one
C21_TypeFilterFallsBack ==
  fpc = "done" =>
    /\ Len(filter_strategy.document_filters) > 0 =>
         filtered_docs = IF MatchingRequired(filter_documents) # <<>>
                           THEN MatchingRequired(filter_documents)
                           ELSE filter_documents
    /\ filter_documents # <<>> => filtered_docs # <<>>

\* C21, witness: of three documents under required types the one that
\* matches is returned and the two that do not are dropped
C21_Witness ==
  /\ fpc = "done"
  /\ Len(filter_strategy.document_filters) > 0
  /\ Len(filter_documents) = 3
  /\ Len(filtered_docs) = 1
  /\ filtered_docs[1].content_types = {"regulation"}

\* the score of the listing title of a document, 0 when it has none
ListingScore(d) == IF d.has_table_title THEN d.table_score ELSE 0

\* the detail page's title is to be used
PrefersDetailTitle(d) ==
  \/ d.detail_score > ListingScore(d)
  \/ ListingScore(d) < Permille(300)
  \/ ~d.has_table_title

\* the title and the score of candidate c follow the stated choice
ChoiceAsStated(c) ==
  LET d == Corpus[c.document_id]
  IN  IF PrefersDetailTitle(d)
        THEN c.title = "detail"
        ELSE /\ c.title = "table"
             /\ c.relevance_score = IF ListingScore(d) > d.detail_score
                                      THEN ListingScore(d) ELSE d.detail_score

\* C22: a candidate of a table row whose detail page was fetched has the
\* detail page's title when that page scores higher than the listing title,
\* when the listing title scores below 0.3 or when there is no listing title,
\* and otherwise the listing title with the higher of the two scores, in the
\* list of either extractor
C22_TitleAndScoreChoice ==
  xpc = "done" =>
    /\ \A i \in DOMAIN documents :
         (\E k \in DOMAIN attempts :
            /\ attempts[k].id = documents[i].document_id
            /\ attempts[k].pass = "table"
            /\ attempts[k].passed
            /\ attempts[k].fetched)
           => ChoiceAsStated(documents[i])
    /\ \A i \in DOMAIN intent_documents : ChoiceAsStated(intent_documents[i])

\* the quality checks as stated, on a candidate of the extractor
PassesStatedChecks(c) ==
  /\ c.title # ""
  /\ c.content_len >= 50
  /\ c.url_http
  /\ ~c.title_spam
  /\ c.relevance_score >= Permille(10)

\* C23: the step of the controller at a candidate that fails a quality check
\* passes it over: the candidate is not rescored, the accepted documents, the
\* counter and the result stay as they were and the invocation goes on
C23_QualityGate ==
  [][(AtCandidate /\ ~PassesStatedChecks(Candidate))
       => /\ events' = Append(events, [kind |-> "invalid", route |-> route_idx,
                                       id |-> Candidate.document_id])
          /\ doc_idx' = doc_idx + 1
          /\ UNCHANGED <<pc, page_documents, all_documents, high_relevance_documents,
                         documents_processed, result>>]_vars

\* C23, witness: candidates with a spam title, with a foreign link and
\* with too little content, each an exact match, were passed over by an
\* invocation that returned another document
C23_Witness ==
  /\ pc = "done"
  /\ \A id \in {SpamId, ForeignUrlId, 4} :
       \E k \in DOMAIN events : events[k].kind = "invalid" /\ events[k].id = id
  /\ result # <<>>
  /\ \A i \in DOMAIN result : result[i].document_id \notin {SpamId, ForeignUrlId, 4}

\* the list of the intent-aware planner for every query the controller is run
\* on that passes the intake
IntentPlan ==
  [q \in {r \in RunQueries : Analysis[r].intent_type \notin {"invalid", "blocked"}} |->
     determine_intelligent_route_enhanced(q, Analysis[q])]

\* C24: for every valid query the routes the invocation visits are the ordered
\* list of the intent-aware route planner for the query and its intent
C24_RoutesFromIntentPlanner ==
  Searching => priority_urls = IntentPlan[query]

\* C25: within one extraction call the detail page of a document identifier
\* is fetched at most once, through a table row or a direct link, also after
\* a failed fetch or a candidate under the floor
C25_DetailFetchedOncePerIdentifier ==
  \A i, j \in DOMAIN attempts : attempts[i].id = attempts[j].id => i = j

FetchEvents == {k \in DOMAIN events : events[k].kind = "fetch"}

\* C26: under any pattern of fetch successes and failures an invocation of
\* run() fetches each planned route at most once, the planned routes being
\* distinct, every step moves it to a later position, and it eventually
\* returns a list
C26_RunTerminates ==
  /\ [](/\ \A i, j \in FetchEvents : events[i].route = events[j].route => i = j
        /\ \A i, j \in DOMAIN priority_urls :
             priority_urls[i] = priority_urls[j] => i = j)
  /\ [][<<Proceed>>_position]_vars
  /\ <>(pc = "done")

\* C26, witness: a search whose routes were all fetched, some with success
\* and some without, returned the empty list
C26_Witness ==
  /\ pc = "done"
  /\ Searching
  /\ result = <<>>
  /\ \A r \in DOMAIN priority_urls : \E k \in FetchEvents : events[k].route = r
  /\ \E k \in FetchEvents : events[k].ok
  /\ \E k \in FetchEvents : ~events[k].ok

\* the candidates of route r, in the extractor's output order
CandidatesOf(r) ==
  IF r = route_idx THEN doc_data
  ELSE IF web[r].ok
    THEN extract_irdai_documents_enhanced_with_intent(web[r].rows, intent)
  ELSE <<>>

\* the candidate passes quality validation and meets the early-stop threshold
MeetsEarlyStop(c) ==
  /\ PassesStatedChecks(c)
  /\ Rescore(c) >= search_strategy.early_stop_threshold

\* C27: the perfect match run() returns is the candidate it is at, reached
\* with budget left, valid and at or above the early-stop threshold, and no
\* candidate before it in processing order (route order, then the extractor's
\* output order within the page) is both valid and at or above the threshold
C27_FirstPerfectMatchWins ==
  ReturnedPerfect =>
    /\ result[1].document_id = doc_data[doc_idx].document_id
    /\ result[1].relevance_score = Rescore(doc_data[doc_idx])
    /\ MeetsEarlyStop(doc_data[doc_idx])
    /\ documents_processed < search_strategy.max_documents
    /\ \A r \in 1..route_idx :
         \A i \in DOMAIN CandidatesOf(r) :
           (r < route_idx \/ i < doc_idx) => ~MeetsEarlyStop(CandidatesOf(r)[i])

\* C27, witness: the perfect match returned is followed on its page by a
\* valid candidate with a higher rescored value
C27_Witness ==
  /\ ReturnedPerfect
  /\ \E i \in (doc_idx + 1)..Len(doc_data) :
       /\ MeetsEarlyStop(doc_data[i])
       /\ Rescore(doc_data[i]) > result[1].relevance_score

\* the invocation ended in the hard early stop: the last thing it did was to
\* rescore a candidate to the early-stop threshold or above
HardStopped ==
  /\ Searching
  /\ events # <<>>
  /\ events[Len(events)].kind = "scored"
  /\ events[Len(events)].score >= search_strategy.early_stop_threshold

\* C28: every document of a list returned without the hard early stop has a
\* score from the intent's minimum up to, and not including, the early-stop
\* threshold and is not flagged as perfect match; the list returned by the
\* hard early stop holds one document, flagged as perfect match, with a score
\* at or above the threshold
C28_ScoresOfReturnedLists ==
  pc = "done" =>
    IF HardStopped
      THEN /\ Len(result) = 1
           /\ result[1].is_perfect_match
           /\ result[1].relevance_score >= search_strategy.early_stop_threshold
      ELSE \A i \in DOMAIN result :
             /\ result[i].relevance_score >= StatedMinimum
             /\ result[i].relevance_score < search_strategy.early_stop_threshold
             /\ ~result[i].is_perfect_match

\* C28, witness: a list is returned that holds a document scored at the
\* minimum of the intent and a document scored 0.85 or above
C28_Witness ==
  /\ pc = "done"
  /\ Searching
  /\ ~HardStopped
  /\ \E i \in DOMAIN result : result[i].relevance_score = StatedMinimum
  /\ \E i \in DOMAIN result : result[i].relevance_score >= Permille(850)

\* the documents accepted so far
AcceptedDocuments == all_documents \o page_documents

\* C29: the strategy has a document-type filter only for a
\* regulatory_guidance intent, every accepted document then names one of the
\* required types, and the list returned after post-processing is the sorted
\* list of the accepted documents, none removed
C29_TypeFilterKeepsAccepted ==
  (Searching /\ Len(search_strategy.document_filters) > 0) =>
    /\ intent.intent_type = "regulatory_guidance"
    /\ \A i \in DOMAIN AcceptedDocuments :
         AcceptedDocuments[i].content_types \cap {"regulation", "circular", "guideline"} # {}
    /\ (pc = "done" /\ ~HardStopped) =>
         /\ result = SortDesc(all_documents)
         /\ Len(result) = Cardinality(AcceptedEvents)

\* C29, witness: a search with a document-type filter returns two or more
\* documents whose own text names no document type
C29_Witness ==
  /\ pc = "done"
  /\ Searching
  /\ Len(search_strategy.document_filters) > 0
  /\ Len(result) >= 2
  /\ \A i \in DOMAIN result : Corpus[result[i].document_id].mentions = {}

\* C30: the fields of the Intent analyze returns agree: a latest_updates
\* intent has time_sensitivity latest; target_year is set exactly when
\* time_sensitivity is specific_year; an invalid or blocked Intent has no
\* keywords, no document types, time_sensitivity any_time and confidence 0
C30_IntentFieldsConsistent ==
  apc # "start" =>
    /\ intent.intent_type = "latest_updates" => intent.time_sensitivity = "latest"
    /\ intent.target_year # None <=> intent.time_sensitivity = "specific_year"
    /\ intent.intent_type \in {"invalid", "blocked"} =>
         /\ intent.keywords = {}
         /\ intent.document_types = <<>>
         /\ intent.time_sensitivity = "any_time"
         /\ intent.confidence_score = 0

\* C30, witness: a query that asks for the latest and names a year is
\* analysed as latest_updates, with no target year
C30_Witness ==
  /\ apc = "analyzed"
  /\ intent.intent_type = "latest_updates"
  /\ intent.time_sensitivity = "latest"
  /\ intent.target_year = None
  /\ Len(FindYears(Lower(query))) > 0

=============================================================================
